---- MODULE Spec2Model ----
(***************************************************************************)
(* HostNote server (server.js): per-user encrypted file store with public  *)
(* sharing.  The state is the storage directory /data and the in-memory    *)
(* publicFilesRegistry.  Every route handler is an operator from the state *)
(* and the request to its outcome (the state it leaves and the response), *)
(* and an action that applies it; the process restart rebuilds the         *)
(* registry with loadPublicFilesRegistry.                                  *)
(***************************************************************************)
EXTENDS Integers, Sequences, FiniteSets, TLC

VARIABLES
    dirs,                 \* the user directories that exist under DATA_DIR
    fsys,                 \* <<userDir, entryName>> -> file data (content blobs and sidecars)
    publicFilesRegistry,  \* publicId -> [userId, filename]
    minted,               \* the publicIds generatePublicId has returned so far
    last,                 \* the last request that updated the sharing state
    fnArg,                \* argument of a pure function under test
    fnRet,                \* its result; in the step-by-step runs, whether the
                          \* steps of two requests have interleaved
    inflight              \* the requests whose handlers run step by step: where
                          \* each stands, its local variables, its response

vars == <<dirs, fsys, publicFilesRegistry, minted, last, fnArg, fnRet, inflight>>

(***************************************************************************)
(* Bounds of the model                                                     *)
(***************************************************************************)
NumTokens == 1     \* how many publicIds the random generator hands out in one run
MaxLen == 3        \* longest enumerated filename of the isValidFilename inputs

(***************************************************************************)
(* Program constants                                                       *)
(***************************************************************************)
MAX_FILE_SIZE == 5 * 1024 * 1024
MAX_FILENAME_LENGTH == 255
JSON_BODY_LIMIT == 6 * 1024 * 1024
ENCRYPTION_KEY == "master-secret"   \* process.env.ENCRYPTION_KEY

NULL == "null"             \* JavaScript null / undefined
NoId == <<"null">>         \* null in a publicId field (no sequence of characters)
\* a request field that is missing or not a string (no sequence of characters)
NotAString == <<"undefined">>

(***************************************************************************)
(* Strings are sequences of one-character strings.                         *)
(***************************************************************************)
Lower == {"a","b","c","d","e","f","g","h","i","j","k","l","m",
          "n","o","p","q","r","s","t","u","v","w","x","y","z"}
Upper == {"A","B","C","D","E","F","G","H","I","J","K","L","M",
          "N","O","P","Q","R","S","T","U","V","W","X","Y","Z"}
Digit == {"0","1","2","3","4","5","6","7","8","9"}

StartsWith(s, prefix) ==
    /\ Len(s) >= Len(prefix)
    /\ SubSeq(s, 1, Len(prefix)) = prefix

EndsWith(s, suffix) ==
    /\ Len(s) >= Len(suffix)
    /\ SubSeq(s, Len(s) - Len(suffix) + 1, Len(s)) = suffix

\* String.prototype.includes
Includes(s, part) ==
    \E i \in 1..(Len(s) - Len(part) + 1) : SubSeq(s, i, i + Len(part) - 1) = part

\* FILENAME_REGEX = /^[a-zA-Z0-9][a-zA-Z0-9._-]*$/
FILENAME_REGEX(s) ==
    /\ Len(s) >= 1
    /\ s[1] \in Lower \cup Upper \cup Digit
    /\ \A i \in 2..Len(s) : s[i] \in Lower \cup Upper \cup Digit \cup {".", "_", "-"}

IsValidFilenameNoDotDot(filename) ==
    IF filename = NotAString \/ filename = <<>> THEN FALSE
    ELSE IF Len(filename) > MAX_FILENAME_LENGTH THEN FALSE
    ELSE IF Includes(filename, <<"/">>) \/ Includes(filename, <<"\\">>) THEN FALSE
    ELSE IF ~FILENAME_REGEX(filename) THEN FALSE
    ELSE IF StartsWith(filename, <<".">>) \/ filename = <<".">> \/ filename = <<".", ".">> THEN FALSE
    ELSE TRUE

isValidFilename(filename) ==
    IF filename = NotAString \/ filename = <<>> THEN FALSE
    ELSE IF Len(filename) > MAX_FILENAME_LENGTH THEN FALSE
    ELSE IF \/ Includes(filename, <<".", ".">>)
            \/ Includes(filename, <<"/">>)
            \/ Includes(filename, <<"\\">>) THEN FALSE
    ELSE IF ~FILENAME_REGEX(filename) THEN FALSE
    ELSE IF StartsWith(filename, <<".">>) \/ filename = <<".">> \/ filename = <<".", ".">> THEN FALSE
    ELSE TRUE

(***************************************************************************)
(* Identity                                                                *)
(***************************************************************************)
Users == {"alice", "bob"}

\* The x-auth-request-email / x-auth-request-user header pairs of a request
\* ("" is an absent header).
HeaderSets == {<<"", "">>, <<"alice", "bob">>, <<"", "bob">>}

getUserId(headers) ==
    IF headers[1] # "" THEN headers[1]
    ELSE IF headers[2] # "" THEN headers[2]
    ELSE NULL

getUserDataDirShared(userId) == <<"sha256/16", "shared">>

\* sha256(userId) in hex, cut to 16 characters: a one-way function of userId
getUserDataDir(userId) == <<"sha256/16", userId>>

MetaSuffix == <<".", "m", "e", "t", "a", ".", "j", "s", "o", "n">>

MetaNameNoDot(filename) == filename \o MetaSuffix

\* the entry name `.${filename}.meta.json`
MetaName(filename) == <<".">> \o filename \o MetaSuffix

getMetadataPath(userId, filename) == <<getUserDataDir(userId), MetaName(filename)>>

FilePath(userId, filename) == <<getUserDataDir(userId), filename>>

(***************************************************************************)
(* Stored data.  A content file holds the base64 text of                   *)
(* salt || iv || tag || ciphertext; a sidecar holds JSON text.             *)
(***************************************************************************)
ToBase64(buffer) == <<"base64", buffer>>
FromBase64(data) == data[2]

JSONstringify(value) == <<"json", value>>
\* JSON.parse throws on the base64 text of a content file
JSONparses(data) == data[1] = "json"
JSONparse(data) == data[2]

\* crypto.pbkdf2Sync(password, salt, 100000, 32, 'sha512')
pbkdf2Sync(password, salt) == <<"pbkdf2", password, salt>>

getUserEncryptionKeyShared(userId) == pbkdf2Sync(ENCRYPTION_KEY, <<"user:">>)

getUserEncryptionKey(userId) == pbkdf2Sync(ENCRYPTION_KEY, <<"user:", userId>>)

getKey(userKey, salt) == pbkdf2Sync(userKey, salt)

\* aes-256-gcm: the ciphertext of `text` under (key, iv) and its authentication tag
GcmCipher(key, iv, text) == [key |-> key, iv |-> iv, plain |-> text]
GcmTag(key, iv, encrypted) == <<"gcm-tag", key, iv, encrypted>>

\* the outcomes of crypto.randomBytes for the salt and the iv
RandomSalts == {"salt1"}
RandomIVs == {"iv1"}

\* A string is a record whose field units spells its UTF-16 code units: a BMP
\* character by its name, "D83D" a high and "DE00" a low surrogate.
HighSurrogate == "D83D"
LowSurrogate == "DE00"

\* cipher.update(text, 'utf8'): the code points whose UTF-8 bytes are written; a
\* surrogate pair is one code point, a surrogate on its own is written as U+FFFD
RECURSIVE Utf8Units(_)
Utf8Units(units) ==
    IF units = << >> THEN << >>
    ELSE IF Len(units) >= 2 /\ units[1] = HighSurrogate /\ units[2] = LowSurrogate
    THEN <<"1F600">> \o Utf8Units(Tail(Tail(units)))
    ELSE IF units[1] \in {HighSurrogate, LowSurrogate}
    THEN <<"FFFD">> \o Utf8Units(Tail(units))
    ELSE <<units[1]>> \o Utf8Units(Tail(units))

Utf8Write(text) == [text EXCEPT !.units = Utf8Units(@)]

\* decipher.update(encrypted, undefined, 'utf8'): the string of valid UTF-8 bytes
RECURSIVE StringUnits(_)
StringUnits(points) ==
    IF points = << >> THEN << >>
    ELSE IF points[1] = "1F600"
    THEN <<HighSurrogate, LowSurrogate>> \o StringUnits(Tail(points))
    ELSE <<points[1]>> \o StringUnits(Tail(points))

Utf8ToString(bytes) == [bytes EXCEPT !.units = StringUnits(@)]

encrypt(text, userId, salt, iv) ==
    LET userKey == getUserEncryptionKey(userId)
        key == getKey(userKey, salt)
        encrypted == GcmCipher(key, iv, Utf8Write(text))
        tag == GcmTag(key, iv, encrypted)
    IN  ToBase64(<<salt, iv, tag, encrypted>>)

\* a decrypt whose decipher never verifies the tag
DecryptUnverified(encryptedData, userId) ==
    [ok |-> TRUE, text |-> Utf8ToString(FromBase64(encryptedData)[4].plain)]

\* decrypt: [ok |-> TRUE, text |-> plaintext], or ok = FALSE when decipher.final throws
decrypt(encryptedData, userId) ==
    LET userKey == getUserEncryptionKey(userId)
        buffer == FromBase64(encryptedData)
        salt == buffer[1]
        iv == buffer[2]
        tag == buffer[3]
        encrypted == buffer[4]
        key == getKey(userKey, salt)
    IN  IF tag = GcmTag(key, iv, encrypted)
        THEN [ok |-> TRUE, text |-> Utf8ToString(encrypted.plain)]
        ELSE [ok |-> FALSE, text |-> NULL]

(***************************************************************************)
(* Metadata sidecars                                                       *)
(***************************************************************************)
\* a field JSON does not carry reads as undefined
DefaultMeta == [isPublic |-> FALSE, publicId |-> NoId, userId |-> "undefined"]

\* a getFileMetadata without its catch: the failure reaches the caller
MetadataInUncaught(fs, userId, filename) ==
    LET metaPath == getMetadataPath(userId, filename)
    IN  IF metaPath \in DOMAIN fs /\ JSONparses(fs[metaPath])
        THEN JSONparse(fs[metaPath])
        ELSE [raised |-> "Error"]

\* getFileMetadata on the storage fs
MetadataIn(fs, userId, filename) ==
    LET metaPath == getMetadataPath(userId, filename)
    IN  IF metaPath \in DOMAIN fs /\ JSONparses(fs[metaPath])
        THEN JSONparse(fs[metaPath])
        ELSE DefaultMeta

getFileMetadata(userId, filename) == MetadataIn(fsys, userId, filename)

\* metadata.isPublic && metadata.publicId
IsShared(metadata) == metadata.isPublic /\ metadata.publicId # NoId

\* fs.writeFile / fs.unlink / fs.rename on the storage map
WriteFile(fs, path, data) ==
    [p \in DOMAIN fs \cup {path} |-> IF p = path THEN data ELSE fs[p]]

Unlink(fs, path) == [p \in DOMAIN fs \ {path} |-> fs[p]]

RenameFile(fs, from, to) ==
    [p \in (DOMAIN fs \ {from}) \cup {to} |-> IF p = to THEN fs[from] ELSE fs[p]]

saveFileMetadata(fs, userId, filename, metadata) ==
    WriteFile(fs, getMetadataPath(userId, filename), JSONstringify(metadata))

\* fs.readdir(userDir)
ReadDir(fs, dir) == {p[2] : p \in {q \in DOMAIN fs : q[1] = dir}}

(***************************************************************************)
(* Public ids                                                              *)
(***************************************************************************)
HexLower == {"a","b","c","d","e","f"} \cup Digit
HexDigitAt == <<"1","2","3","4","5","6","7","8","9","a","b","c","d","e","f">>

\* crypto.randomBytes(16).toString('hex'): 32 lower-case hex characters
HexId(i) == [k \in 1..32 |-> IF k = 32 THEN HexDigitAt[i] ELSE "0"]
Tokens == {HexId(i) : i \in 1..NumTokens}

PublicIdFormatAny(publicId) == TRUE

\* /^[a-f0-9]{32}$/
PublicIdFormat(publicId) ==
    /\ Len(publicId) = 32
    /\ \A k \in 1..32 : publicId[k] \in HexLower

RegistrySet(registry, publicId, entry) ==
    [t \in DOMAIN registry \cup {publicId} |-> IF t = publicId THEN entry ELSE registry[t]]

RegistryDelete(registry, publicId) ==
    [t \in DOMAIN registry \ {publicId} |-> registry[t]]

(***************************************************************************)
(* Requests and their outcomes                                             *)
(***************************************************************************)
F1 == <<"f">>
F2 == <<"g">> \o MetaSuffix                  \* "g.meta.json", a valid filename
Hidden == MetaName(F1)                       \* ".f.meta.json", the sidecar of f
Traversal == <<".", ".", "/", "f">>          \* "../f"

ValidNames == {F1, F2}
RequestNames == ValidNames \cup {Hidden}

\* a string of the given length (UTF-16 units) and size (UTF-8 bytes); author
\* names the identity that sends it, so that a text read back tells whose it is.
\* Its one unit stands for a well-formed payload of that size.
Str(author, id, length, bytes) ==
    [type |-> "string", author |-> author, id |-> id, length |-> length, bytes |-> bytes,
     units |-> <<id>>]
NoContent ==
    [type |-> "undefined", author |-> "none", id |-> "none", length |-> 0, bytes |-> 0,
     units |-> << >>]

\* a short string spelled out by its code units
RECURSIVE Utf8Length(_)
Utf8Length(points) ==
    IF points = << >> THEN 0
    ELSE (IF points[1] = "1F600" THEN 4 ELSE IF points[1] = "FFFD" THEN 3 ELSE 1)
             + Utf8Length(Tail(points))

Text(author, units) ==
    [type |-> "string", author |-> author, id |-> "text", length |-> Len(units),
     bytes |-> Utf8Length(Utf8Units(units)), units |-> units]

\* request bodies of a save by userId: no string, a payload that fits, one
\* above MAX_FILE_SIZE, one above the JSON body limit
ContentInputs(userId) ==
    { NoContent,
      Str(userId, "p1", 1, 1),
      Str(userId, "big", MAX_FILE_SIZE + 1, MAX_FILE_SIZE + 1),
      Str(userId, "huge", JSON_BODY_LIMIT, JSON_BODY_LIMIT) }

\* bytes of the JSON body {"content":"..."} that express.json reads
BodyBytes(content) == IF content.type = "string" THEN content.bytes + 14 ELSE 2

MalformedIds == { [k \in 1..31 |-> "0"], [k \in 1..32 |-> IF k = 32 THEN "A" ELSE "0"] }
PublicIdInputs == Tokens \cup MalformedIds

\* What a handler leaves behind and answers.  publicId: the id it answered with
\* or whose registry entry it updated.  touched: it reached its update of the
\* sharing state (the registry, a sidecar).
Outcome(d, fs, registry, ids, status, body, publicId, touched) ==
    [dirs |-> d, fsys |-> fs, registry |-> registry, minted |-> ids,
     status |-> status, body |-> body, publicId |-> publicId, touched |-> touched]

\* a response sent before any such call
Answer(status, body) ==
    Outcome(dirs, fsys, publicFilesRegistry, minted, status, body, NoId, FALSE)

\* the error kinds of the responses
ErrorKind(status) ==
    CASE status = 200 -> "Ok"
      [] status \in {400, 413} -> "InvalidInput"
      [] status = 401 -> "Unauthorized"
      [] status = 404 -> "NotFound"
      [] status = 409 -> "Conflict"
      [] OTHER -> "Internal"

\* requireAuth
AuthenticationRequired == Answer(401, "Authentication required")

\* app.get('/api/files')
ListsEveryEntry(name) == FALSE

\* list's "Skip metadata files"
IsMetadataFile(name) == StartsWith(name, <<".">>) /\ EndsWith(name, MetaSuffix)

ListIn(fs, headers) ==
    LET userId == getUserId(headers)
        userDataDir == getUserDataDir(userId)
        files == ReadDir(fs, userDataDir)
        listed == {name \in files : ~IsMetadataFile(name)}
        fileDetails == [name \in listed |->
                          [isPublic |-> MetadataIn(fs, userId, name).isPublic,
                           publicId |-> MetadataIn(fs, userId, name).publicId]]
    IN  IF userId = NULL THEN AuthenticationRequired
        ELSE Outcome(dirs \cup {userDataDir}, fs, publicFilesRegistry, minted,
                     200, fileDetails, NoId, FALSE)

ListOutcome(headers) == ListIn(fsys, headers)

\* app.get('/api/files/:filename')
ReadIn(fs, headers, filename) ==
    LET userId == getUserId(headers)
        filePath == FilePath(userId, filename)
    IN  IF userId = NULL THEN AuthenticationRequired
        ELSE IF ~isValidFilename(filename) THEN Answer(400, "Invalid filename")
        ELSE IF filePath \notin DOMAIN fs THEN Answer(404, "File not found")
        ELSE IF ~decrypt(fs[filePath], userId).ok THEN Answer(404, "File not found")
        ELSE Answer(200, decrypt(fs[filePath], userId).text)

ReadOutcome(headers, filename) == ReadIn(fsys, headers, filename)

\* app.post('/api/files/:filename'), behind express.json({ limit: '6mb' })
WriteOutcome(headers, filename, content, salt, iv) ==
    LET userId == getUserId(headers)
        userDataDir == getUserDataDir(userId)
        filePath == FilePath(userId, filename)
    IN  IF BodyBytes(content) > JSON_BODY_LIMIT
        THEN \* body-parser fails; the global error handler answers
             Answer(500, "Internal server error")
        ELSE IF userId = NULL THEN AuthenticationRequired
        ELSE IF ~isValidFilename(filename) THEN Answer(400, "Invalid filename")
        ELSE IF content.type # "string" THEN Answer(400, "Invalid content")
        ELSE IF content.length > MAX_FILE_SIZE THEN Answer(413, "File too large (max 5MB)")
        ELSE Outcome(dirs \cup {userDataDir},
                     WriteFile(fsys, filePath, encrypt(content, userId, salt, iv)),
                     publicFilesRegistry, minted, 200, filename, NoId, FALSE)

DeleteRegistryKept(registry, metadata) == registry

DeleteKeepsSidecar(fs, metaPath) == fs

\* delete's "Delete metadata file if exists": try { await fs.unlink(metaPath) }
DeleteSidecar(fs, metaPath) == Unlink(fs, metaPath)

\* delete's "Clean up public registry if file was shared"
DeleteRegistryCleanup(registry, metadata) ==
    IF IsShared(metadata) THEN RegistryDelete(registry, metadata.publicId) ELSE registry

\* app.delete('/api/files/:filename')
DeleteOutcome(headers, filename) ==
    LET userId == getUserId(headers)
        filePath == FilePath(userId, filename)
        metadata == getFileMetadata(userId, filename)
        registry == DeleteRegistryCleanup(publicFilesRegistry, metadata)
    IN  IF userId = NULL THEN AuthenticationRequired
        ELSE IF ~isValidFilename(filename) THEN Answer(400, "Invalid filename")
        ELSE IF filePath \notin DOMAIN fsys
        THEN \* fs.unlink throws after the registry was cleaned
             Outcome(dirs, fsys, registry, minted, 500, "Failed to delete file",
                     metadata.publicId, IsShared(metadata))
        ELSE Outcome(dirs,
                     DeleteSidecar(Unlink(fsys, filePath), getMetadataPath(userId, filename)),
                     registry, minted, 200, "success", metadata.publicId, TRUE)

RenameRegistryStale(registry, metadata, userId, newName) == registry

\* rename's "Update registry with new filename"
RenameRegistryUpdate(registry, metadata, userId, newName) ==
    IF IsShared(metadata)
    THEN RegistrySet(registry, metadata.publicId, [userId |-> userId, filename |-> newName])
    ELSE registry

RenameNeverConflicts(fs, newPath) == FALSE

\* rename's "Check if new name already exists": fs.access(newPath) succeeds
NewNameExists(fs, newPath) == newPath \in DOMAIN fs

\* app.put('/api/files/:filename/rename')
RenameOutcome(headers, oldFilename, newName) ==
    LET userId == getUserId(headers)
        oldPath == FilePath(userId, oldFilename)
        newPath == FilePath(userId, newName)
        oldMetaPath == getMetadataPath(userId, oldFilename)
        newMetaPath == getMetadataPath(userId, newName)
        moved == RenameFile(fsys, oldPath, newPath)
        metadata == MetadataIn(moved, userId, oldFilename)
    IN  IF userId = NULL THEN AuthenticationRequired
        ELSE IF ~isValidFilename(oldFilename) \/ ~isValidFilename(newName)
        THEN Answer(400, "Invalid filename")
        ELSE IF NewNameExists(fsys, newPath) THEN Answer(409, "File already exists")
        ELSE IF oldPath \notin DOMAIN fsys THEN Answer(500, "Failed to rename file")
        ELSE Outcome(dirs,
                     IF oldMetaPath \in DOMAIN moved
                     THEN RenameFile(moved, oldMetaPath, newMetaPath)
                     ELSE moved,
                     RenameRegistryUpdate(publicFilesRegistry, metadata, userId, newName),
                     minted, 200, newName, metadata.publicId, TRUE)

\* generatePublicId: the values the random generator can return next
generatePublicId == Tokens \ minted

ShareAlwaysMint(metadata) == FALSE

\* share's test "already public": metadata.isPublic && metadata.publicId
AlreadyPublic(metadata) == IsShared(metadata)

\* a handler that skips the "Check if file exists" test
AccessNeverFails(fs, filePath) == FALSE

\* share's and unshare's "Check if file exists": fs.access(filePath) throws
AccessFails(fs, filePath) == filePath \notin DOMAIN fs

\* app.post('/api/files/:filename/share'); publicId is what generatePublicId
\* returns when the handler calls it
ShareOutcome(headers, filename, publicId) ==
    LET userId == getUserId(headers)
        filePath == FilePath(userId, filename)
        metadata == getFileMetadata(userId, filename)
    IN  IF userId = NULL THEN AuthenticationRequired
        ELSE IF ~isValidFilename(filename) THEN Answer(400, "Invalid filename")
        ELSE IF AccessFails(fsys, filePath) THEN Answer(404, "File not found")
        ELSE IF AlreadyPublic(metadata)
        THEN Outcome(dirs, fsys, publicFilesRegistry, minted, 200, "success",
                     metadata.publicId, FALSE)
        ELSE Outcome(dirs,
                     saveFileMetadata(fsys, userId, filename,
                         [isPublic |-> TRUE, publicId |-> publicId, userId |-> userId]),
                     RegistrySet(publicFilesRegistry, publicId,
                                 [userId |-> userId, filename |-> filename]),
                     minted \cup {publicId}, 200, "success", publicId, TRUE)

UnshareRegistryKept(registry, metadata) == registry

\* unshare's "Remove from registry if public"
UnshareRegistryCleanup(registry, metadata) ==
    IF IsShared(metadata) THEN RegistryDelete(registry, metadata.publicId) ELSE registry

\* app.post('/api/files/:filename/unshare')
UnshareOutcome(headers, filename) ==
    LET userId == getUserId(headers)
        filePath == FilePath(userId, filename)
        metadata == getFileMetadata(userId, filename)
    IN  IF userId = NULL THEN AuthenticationRequired
        ELSE IF ~isValidFilename(filename) THEN Answer(400, "Invalid filename")
        ELSE IF AccessFails(fsys, filePath) THEN Answer(404, "File not found")
        ELSE Outcome(dirs,
                     saveFileMetadata(fsys, userId, filename,
                         [metadata EXCEPT !.isPublic = FALSE, !.publicId = NoId]),
                     UnshareRegistryCleanup(publicFilesRegistry, metadata),
                     minted, 200, "success", metadata.publicId, TRUE)

\* the registry lookup of a public read: "found" with the entry, or not
NotFound == [found |-> FALSE, userId |-> NULL, filename |-> NotAString]

ResolveIn(registry, publicId) ==
    IF PublicIdFormat(publicId) /\ publicId \in DOMAIN registry
    THEN [found |-> TRUE, userId |-> registry[publicId].userId,
          filename |-> registry[publicId].filename]
    ELSE NotFound

resolvePublic(publicId) == ResolveIn(publicFilesRegistry, publicId)

\* app.get('/api/public/:publicId'): no requireAuth
PublicReadAt(fs, registry, publicId) ==
    LET fileInfo == registry[publicId]
        filePath == FilePath(fileInfo.userId, fileInfo.filename)
    IN  IF ~PublicIdFormat(publicId) THEN Answer(400, "Invalid public ID format")
        ELSE IF publicId \notin DOMAIN registry
        THEN Answer(404, "Public file not found")
        ELSE IF \/ filePath \notin DOMAIN fs
                \/ ~decrypt(fs[filePath], fileInfo.userId).ok
        THEN Answer(404, "Public file not found or no longer available")
        ELSE Answer(200, [name |-> fileInfo.filename,
                          content |-> decrypt(fs[filePath], fileInfo.userId).text])

PublicReadIn(registry, publicId) == PublicReadAt(fsys, registry, publicId)

PublicReadOutcome(publicId) == PublicReadIn(publicFilesRegistry, publicId)

(***************************************************************************)
(* Startup: loadPublicFilesRegistry.  fs.readdir returns the entries in an *)
(* order the file system chooses: dirRank orders the user directories,     *)
(* nameRank the entries of a directory.                                    *)
(***************************************************************************)
Rankings(S) ==
    {r \in [S -> 1..Cardinality(S)] : \A a, b \in S : a # b => r[a] # r[b]}

\* file.slice(1, -10)
SliceMetaName(file) == SubSeq(file, 2, Len(file) - 10)

RECURSIVE ScanEntries(_, _, _, _, _)
ScanEntries(fs, todo, registry, dirRank, nameRank) ==
    IF todo = {} THEN registry
    ELSE LET Before(p, q) ==
                 \/ dirRank[p[1]] < dirRank[q[1]]
                 \/ p[1] = q[1] /\ nameRank[p[2]] < nameRank[q[2]]
             entry == CHOOSE p \in todo : \A q \in todo \ {p} : Before(p, q)
             file == entry[2]
             rest == todo \ {entry}
         IN  IF ~EndsWith(file, MetaSuffix)
             THEN ScanEntries(fs, rest, registry, dirRank, nameRank)
             ELSE IF ~JSONparses(fs[entry])
             THEN registry       \* JSON.parse throws: the outer catch ends the scan
             ELSE LET meta == JSONparse(fs[entry])
                  IN  IF IsShared(meta)
                      THEN ScanEntries(fs, rest,
                               RegistrySet(registry, meta.publicId,
                                   [userId |-> meta.userId, filename |-> SliceMetaName(file)]),
                               dirRank, nameRank)
                      ELSE ScanEntries(fs, rest, registry, dirRank, nameRank)

\* the entries that pass file.endsWith('.meta.json'); the others are stepped over
MetaEntries(fs) == {p \in DOMAIN fs : EndsWith(p[2], MetaSuffix)}

\* the registry loadPublicFilesRegistry builds from storage into an empty Map
loadPublicFilesRegistry(dirRank, nameRank) ==
    ScanEntries(fsys, MetaEntries(fsys), << >>, dirRank, nameRank)

DirRankings == Rankings({p[1] : p \in MetaEntries(fsys)})
NameRankings == Rankings({p[2] : p \in MetaEntries(fsys)})

(***************************************************************************)
(* Actions                                                                 *)
(***************************************************************************)
LogLine(op, userId, filename, newName, publicId, status) ==
    [op |-> op, userId |-> userId, filename |-> filename, newName |-> newName,
     publicId |-> publicId, status |-> status]

Init ==
    /\ dirs = {}
    /\ fsys = << >>
    /\ publicFilesRegistry = << >>
    /\ minted = {}
    /\ last = LogLine("start", NULL, NotAString, NotAString, NoId, 200)
    /\ fnArg = NotAString
    /\ fnRet = "none"
    /\ inflight = << >>

\* the handler's outcome becomes the state
Apply(op, userId, filename, newName, outcome) ==
    /\ dirs' = outcome.dirs
    /\ fsys' = outcome.fsys
    /\ publicFilesRegistry' = outcome.registry
    /\ minted' = outcome.minted
    /\ last' = IF outcome.touched
               THEN LogLine(op, userId, filename, newName, outcome.publicId, outcome.status)
               ELSE last
    /\ UNCHANGED <<fnArg, fnRet, inflight>>

\* requireAuth answers a request without identity before its handler runs
Unauthenticated == {h \in HeaderSets : getUserId(h) = NULL}
Authenticated == {h \in HeaderSets : getUserId(h) # NULL}

List ==
    \E headers \in HeaderSets :
        Apply("list", getUserId(headers), NotAString, NotAString, ListOutcome(headers))

Read ==
    \/ \E headers \in Unauthenticated :
           Apply("read", NULL, NotAString, NotAString, ReadOutcome(headers, NotAString))
    \/ \E headers \in Authenticated, filename \in RequestNames :
           Apply("read", getUserId(headers), filename, NotAString,
                 ReadOutcome(headers, filename))

Write ==
    \/ \E headers \in Unauthenticated :
           Apply("write", NULL, NotAString, NotAString,
                 WriteOutcome(headers, NotAString, NoContent, "salt1", "iv1"))
    \/ \E headers \in Authenticated, filename \in RequestNames :
       \E content \in ContentInputs(getUserId(headers)) :
       \E salt \in RandomSalts, iv \in RandomIVs :
           Apply("write", getUserId(headers), filename, NotAString,
                 WriteOutcome(headers, filename, content, salt, iv))

Delete ==
    \/ \E headers \in Unauthenticated :
           Apply("delete", NULL, NotAString, NotAString, DeleteOutcome(headers, NotAString))
    \/ \E headers \in Authenticated, filename \in RequestNames :
           Apply("delete", getUserId(headers), filename, NotAString,
                 DeleteOutcome(headers, filename))

Rename ==
    \/ \E headers \in Unauthenticated :
           Apply("rename", NULL, NotAString, NotAString,
                 RenameOutcome(headers, NotAString, NotAString))
    \/ \E headers \in Authenticated, filename \in RequestNames, newName \in RequestNames :
           Apply("rename", getUserId(headers), filename, newName,
                 RenameOutcome(headers, filename, newName))

\* a share that has to mint needs an id the generator can still return
Share ==
    \/ \E headers \in Unauthenticated :
           Apply("share", NULL, NotAString, NotAString,
                 ShareOutcome(headers, NotAString, NoId))
    \/ \E headers \in Authenticated, filename \in RequestNames :
           /\ ~ShareOutcome(headers, filename, NoId).touched
           /\ Apply("share", getUserId(headers), filename, NotAString,
                    ShareOutcome(headers, filename, NoId))
    \/ \E headers \in Authenticated, filename \in RequestNames :
           /\ ShareOutcome(headers, filename, NoId).touched
           /\ \E publicId \in generatePublicId :
                  Apply("share", getUserId(headers), filename, NotAString,
                        ShareOutcome(headers, filename, publicId))

Unshare ==
    \/ \E headers \in Unauthenticated :
           Apply("unshare", NULL, NotAString, NotAString,
                 UnshareOutcome(headers, NotAString))
    \/ \E headers \in Authenticated, filename \in RequestNames :
           Apply("unshare", getUserId(headers), filename, NotAString,
                 UnshareOutcome(headers, filename))

PublicRead ==
    \E publicId \in PublicIdInputs :
        Apply("public", NULL, NotAString, NotAString, PublicReadOutcome(publicId))

\* the process stops and starts again: the registry is rebuilt from storage
Restart ==
    \E dirRank \in DirRankings, nameRank \in NameRankings :
        /\ publicFilesRegistry' = loadPublicFilesRegistry(dirRank, nameRank)
        /\ last' = LogLine("restart", NULL, NotAString, NotAString, NoId, 200)
        /\ UNCHANGED <<dirs, fsys, minted, fnArg, fnRet, inflight>>

Next ==
    \/ List
    \/ Read
    \/ Write
    \/ Delete
    \/ Rename
    \/ Share
    \/ Unshare
    \/ PublicRead
    \/ Restart

Spec == Init /\ [][Next]_vars

(***************************************************************************)
(* The store with a tampering environment: a stored blob is changed behind *)
(* the server's back (its authentication tag no longer verifies).          *)
(***************************************************************************)
IsBlob(data) == data[1] = "base64"

Tamper ==
    \E path \in DOMAIN fsys :
        /\ IsBlob(fsys[path])
        /\ FromBase64(fsys[path])[3] # <<"forged">>
        /\ fsys' = [fsys EXCEPT ![path] =
                       ToBase64([FromBase64(fsys[path]) EXCEPT ![3] = <<"forged">>])]
        /\ UNCHANGED <<dirs, publicFilesRegistry, minted, last, fnArg, fnRet, inflight>>

NextTamper ==
    \/ Write
    \/ Read
    \/ Share
    \/ PublicRead
    \/ Tamper

SpecTamper == Init /\ [][NextTamper]_vars

(***************************************************************************)
(* isValidFilename as a function of its argument.                          *)
(***************************************************************************)
NameChars == {"a", "Z", "0", ".", "/", "\\", "-", "_", "!"}

RECURSIVE SeqsUpTo(_, _)
SeqsUpTo(S, n) ==
    IF n = 0 THEN {<< >>}
    ELSE LET shorter == SeqsUpTo(S, n - 1)
         IN  shorter \cup {Append(s, c) : s \in shorter, c \in S}

Repeat(c, n) == [k \in 1..n |-> c]

LongNames ==
    { Repeat("a", MAX_FILENAME_LENGTH),
      Repeat("a", MAX_FILENAME_LENGTH + 1),
      Repeat("a", MAX_FILENAME_LENGTH - 1) \o <<".">>,
      Repeat("a", MAX_FILENAME_LENGTH) \o <<".">>,
      <<".">> \o Repeat("a", MAX_FILENAME_LENGTH - 1) }

NameInputs ==
    SeqsUpTo(NameChars, MaxLen) \cup LongNames \cup ValidNames
        \cup {Hidden, Traversal, NotAString}

InitName ==
    /\ dirs = {}
    /\ fsys = << >>
    /\ publicFilesRegistry = << >>
    /\ minted = {}
    /\ last = LogLine("start", NULL, NotAString, NotAString, NoId, 200)
    /\ fnArg \in NameInputs
    /\ fnRet = "none"
    /\ inflight = << >>

CallIsValidFilename ==
    /\ fnRet = "none"
    /\ fnRet' = IF isValidFilename(fnArg) THEN "true" ELSE "false"
    /\ UNCHANGED <<dirs, fsys, publicFilesRegistry, minted, last, fnArg, inflight>>

NextName == CallIsValidFilename

SpecName == InitName /\ [][NextName]_vars

(***************************************************************************)
(* Properties                                                              *)
(***************************************************************************)
\* an id the generator has not returned, whatever it returned so far
SpareId == HexId(NumTokens + 1)
FreshIds == generatePublicId \cup {SpareId}

HasContent(fs, userId, filename) == FilePath(userId, filename) \in DOMAIN fs
HasSidecar(fs, userId, filename) == getMetadataPath(userId, filename) \in DOMAIN fs

\* C1: between requests, every registry entry token -> (identity, filename)
\* has a sidecar for (identity, filename) that says isPublic = true and holds
\* that token as publicId.
C1_RegistryEntriesHaveSidecar ==
    \A token \in DOMAIN publicFilesRegistry :
        LET entry == publicFilesRegistry[token]
        IN  /\ HasSidecar(fsys, entry.userId, entry.filename)
            /\ getFileMetadata(entry.userId, entry.filename).isPublic = TRUE
            /\ getFileMetadata(entry.userId, entry.filename).publicId = token

\* a public file was renamed and is still registered
C1_Witness ==
    /\ last.op = "rename"
    /\ \E token \in DOMAIN publicFilesRegistry :
           publicFilesRegistry[token] = [userId |-> last.userId, filename |-> last.newName]

\* C2: a restart (the registry discarded and rebuilt by the startup scan)
\* leaves exactly the registry that existed before it.
C2_RestartRecoversRegistry ==
    [][last'.op = "restart" => publicFilesRegistry' = publicFilesRegistry]_vars

\* C3: share on a file that is already public answers with the publicId the
\* sidecar holds (the one the first share returned), mints nothing and leaves
\* storage and the registry as they were.
C3_ShareIdempotent ==
    \A headers \in Authenticated, filename \in RequestNames, publicId \in FreshIds :
        LET userId == getUserId(headers)
            metadata == getFileMetadata(userId, filename)
            second == ShareOutcome(headers, filename, publicId)
        IN  /\ (HasContent(fsys, userId, filename) /\ IsShared(metadata)) =>
                   /\ second.status = 200
                   /\ second.publicId = metadata.publicId
                   /\ second.minted = minted
                   /\ second.fsys = fsys
                   /\ second.registry = publicFilesRegistry
            /\ (last.op = "share" /\ last.userId = userId /\ last.filename = filename) =>
                   /\ second.status = 200
                   /\ second.publicId = last.publicId
                   /\ second.minted = minted

\* the file was just shared for the first time
C3_Witness ==
    /\ last.op = "share"
    /\ last.status = 200
    /\ IsShared(getFileMetadata(last.userId, last.filename))
    /\ last.publicId \in minted

\* C4: a share that succeeds with token t leaves resolvePublic(t) = (identity,
\* filename); an unshare of a shared file that succeeds leaves resolvePublic(t)
\* NotFound and the sidecar with isPublic = false and publicId = null.
C4_ShareThenUnshareResolve ==
    \A headers \in Authenticated, filename \in RequestNames, publicId \in FreshIds :
        LET userId == getUserId(headers)
            metadata == getFileMetadata(userId, filename)
            shared == ShareOutcome(headers, filename, publicId)
            unshared == UnshareOutcome(headers, filename)
        IN  /\ shared.status = 200 =>
                   ResolveIn(shared.registry, shared.publicId) =
                       [found |-> TRUE, userId |-> userId, filename |-> filename]
            /\ (unshared.status = 200 /\ IsShared(metadata)) =>
                   /\ ResolveIn(unshared.registry, metadata.publicId) = NotFound
                   /\ HasSidecar(unshared.fsys, userId, filename)
                   /\ MetadataIn(unshared.fsys, userId, filename).isPublic = FALSE
                   /\ MetadataIn(unshared.fsys, userId, filename).publicId = NoId

\* C5: a rename of a public file that succeeds keeps the token: it resolves to
\* (identity, newName), the sidecar at newName holds it with isPublic = true,
\* and no registry entry, sidecar or content file is left under oldName.
C5_RenameKeepsToken ==
    \A headers \in Authenticated, oldFilename \in RequestNames, newName \in RequestNames :
        LET userId == getUserId(headers)
            metadata == getFileMetadata(userId, oldFilename)
            renamed == RenameOutcome(headers, oldFilename, newName)
        IN  (renamed.status = 200 /\ IsShared(metadata)) =>
                /\ ResolveIn(renamed.registry, metadata.publicId) =
                       [found |-> TRUE, userId |-> userId, filename |-> newName]
                /\ HasContent(renamed.fsys, userId, newName)
                /\ HasSidecar(renamed.fsys, userId, newName)
                /\ MetadataIn(renamed.fsys, userId, newName).isPublic = TRUE
                /\ MetadataIn(renamed.fsys, userId, newName).publicId = metadata.publicId
                /\ \A token \in DOMAIN renamed.registry :
                       renamed.registry[token] # [userId |-> userId, filename |-> oldFilename]
                /\ ~HasSidecar(renamed.fsys, userId, oldFilename)
                /\ ~HasContent(renamed.fsys, userId, oldFilename)

\* a public file was renamed
C5_Witness ==
    /\ last.op = "rename"
    /\ last.status = 200
    /\ last.publicId # NoId
    /\ resolvePublic(last.publicId).found

\* C6: a delete of a public file that succeeds leaves its former token
\* unresolvable and neither the content file nor the sidecar in the namespace.
C6_DeleteCleansUp ==
    \A headers \in Authenticated, filename \in RequestNames :
        LET userId == getUserId(headers)
            metadata == getFileMetadata(userId, filename)
            deleted == DeleteOutcome(headers, filename)
        IN  (deleted.status = 200 /\ IsShared(metadata)) =>
                /\ ResolveIn(deleted.registry, metadata.publicId) = NotFound
                /\ ~HasContent(deleted.fsys, userId, filename)
                /\ ~HasSidecar(deleted.fsys, userId, filename)

\* a public file was deleted
C6_Witness ==
    /\ last.op = "delete"
    /\ last.status = 200
    /\ last.publicId # NoId

\* C7: what an authenticated read or list returns to B comes from B's own
\* namespace and was written by B; a public read returns only the file its
\* token is registered for, whose sidecar holds that token.
C7_NamespacesIsolated ==
    /\ \A headers \in Authenticated :
           LET userId == getUserId(headers)
               listed == ListOutcome(headers)
           IN  /\ \A filename \in RequestNames :
                      ReadOutcome(headers, filename).status = 200 =>
                          ReadOutcome(headers, filename).body.author = userId
               /\ \A name \in DOMAIN listed.body :
                      /\ HasContent(fsys, userId, name)
                      /\ decrypt(fsys[FilePath(userId, name)], userId).ok
                      /\ decrypt(fsys[FilePath(userId, name)], userId).text.author = userId
    /\ \A publicId \in PublicIdInputs \cup {SpareId} :
           LET answer == PublicReadOutcome(publicId)
               entry == publicFilesRegistry[publicId]
           IN  answer.status = 200 =>
                   /\ publicId \in DOMAIN publicFilesRegistry
                   /\ answer.body.name = entry.filename
                   /\ answer.body.content.author = entry.userId
                   /\ IsShared(getFileMetadata(entry.userId, entry.filename))
                   /\ getFileMetadata(entry.userId, entry.filename).publicId = publicId

\* both identities store a file of the same name and one of them is public
C7_Witness ==
    /\ HasContent(fsys, "alice", F1)
    /\ HasContent(fsys, "bob", F1)
    /\ \E token \in DOMAIN publicFilesRegistry : PublicReadOutcome(token).status = 200

\* filenames the validation refuses: in the path of a request, and in the body
\* of a rename (where the name may also be missing or empty)
InvalidPathNames ==
    { Hidden, Traversal, <<"a", "/", "b">>, <<"a", "\\", "b">>, <<"a", ".", ".", "b">>,
      <<"a", "!">>, Repeat("a", MAX_FILENAME_LENGTH + 1) }
InvalidBodyNames == InvalidPathNames \cup {<< >>, NotAString}

\* the request was refused as invalid input and nothing was changed
Rejected(outcome) ==
    /\ ErrorKind(outcome.status) = "InvalidInput"
    /\ outcome.dirs = dirs
    /\ outcome.fsys = fsys
    /\ outcome.registry = publicFilesRegistry
    /\ outcome.minted = minted

\* C8: every read, write, delete, rename, share or unshare with an invalid
\* filename (rename: either name), and every write with non-string or oversized
\* content, returns InvalidInput and leaves directories, content files, sidecars
\* and the registry as they were.
C8_InvalidInputRejected ==
    \A headers \in Authenticated :
        LET userId == getUserId(headers)
        IN  /\ \A bad \in InvalidPathNames :
                   /\ Rejected(ReadOutcome(headers, bad))
                   /\ Rejected(DeleteOutcome(headers, bad))
                   /\ Rejected(UnshareOutcome(headers, bad))
                   /\ \A publicId \in FreshIds : Rejected(ShareOutcome(headers, bad, publicId))
                   /\ \A newName \in ValidNames : Rejected(RenameOutcome(headers, bad, newName))
                   /\ \A content \in ContentInputs(userId), salt \in RandomSalts, iv \in RandomIVs :
                          Rejected(WriteOutcome(headers, bad, content, salt, iv))
            /\ \A bad \in InvalidBodyNames, oldFilename \in ValidNames :
                   Rejected(RenameOutcome(headers, oldFilename, bad))
            /\ \A filename \in ValidNames, content \in ContentInputs(userId),
                  salt \in RandomSalts, iv \in RandomIVs :
                   (content.type # "string" \/ content.length > MAX_FILE_SIZE) =>
                       Rejected(WriteOutcome(headers, filename, content, salt, iv))

\* the characters of ^[A-Za-z0-9][A-Za-z0-9._-]*$
Alphanumeric == Lower \cup Upper \cup Digit

\* C9: isValidFilename(s) is true exactly when s is a non-empty string of at
\* most 255 characters without "..", "/" or "\" that matches
\* ^[A-Za-z0-9][A-Za-z0-9._-]*$; no accepted name starts with ".".
C9_IsValidFilenameExact ==
    fnRet # "none" =>
        /\ (fnRet = "true") <=>
               /\ fnArg # NotAString
               /\ Len(fnArg) >= 1
               /\ Len(fnArg) <= 255
               /\ \A i \in 1..(Len(fnArg) - 1) : ~(fnArg[i] = "." /\ fnArg[i + 1] = ".")
               /\ \A i \in 1..Len(fnArg) : fnArg[i] \notin {"/", "\\"}
               /\ fnArg[1] \in Alphanumeric
               /\ \A i \in 2..Len(fnArg) : fnArg[i] \in Alphanumeric \cup {".", "_", "-"}
        /\ fnRet = "true" => fnArg[1] # "."

\* a name of allowed characters was refused for its ".." alone
C9_Witness ==
    /\ fnRet = "false"
    /\ fnArg # NotAString
    /\ Len(fnArg) <= MaxLen
    /\ FILENAME_REGEX(fnArg)
    /\ Includes(fnArg, <<".", ".">>)

\* the stored blob at path fails its tag verification under userId's key
FailsTag(userId, filename) ==
    /\ HasContent(fsys, userId, filename)
    /\ ~decrypt(fsys[FilePath(userId, filename)], userId).ok

\* C10: a read (authenticated or public) of a file whose stored blob fails tag
\* verification reports an AuthenticationError outcome, never the NotFound
\* outcome an absent file gets.
C10_AuthErrorDistinctFromNotFound ==
    /\ \A headers \in Authenticated, filename \in ValidNames :
           FailsTag(getUserId(headers), filename) =>
               ErrorKind(ReadOutcome(headers, filename).status) # "NotFound"
    /\ \A publicId \in DOMAIN publicFilesRegistry :
           FailsTag(publicFilesRegistry[publicId].userId, publicFilesRegistry[publicId].filename) =>
               ErrorKind(PublicReadOutcome(publicId).status) # "NotFound"

(***************************************************************************)
(* The startup scan on its own: a new process (empty registry) over a data *)
(* directory left by earlier runs, in which a sidecar may be damaged.      *)
(***************************************************************************)
F3 == <<"h">>
ScanNames == {F1, F3}
ScanSlots == Users \X ScanNames
SlotKinds == {"absent", "plain", "public", "private", "corrupt"}

\* the publicId a share minted for the file in a slot
ScanId(slot) ==
    HexId((IF slot[1] = "alice" THEN 0 ELSE 2) + (IF slot[2] = F1 THEN 1 ELSE 2))

\* what saveFileMetadata left in the sidecar of a slot, or what is left of it
ScanSidecar(slot, kind) ==
    IF kind = "public"
    THEN JSONstringify([isPublic |-> TRUE, publicId |-> ScanId(slot), userId |-> slot[1]])
    ELSE IF kind = "private"
    THEN JSONstringify([isPublic |-> FALSE, publicId |-> NoId, userId |-> slot[1]])
    ELSE <<"text", "{\"isPublic\":tr">>

ScanStorage(kinds) ==
    LET content == {s \in ScanSlots : kinds[s] # "absent"}
        sidecars == {s \in ScanSlots : kinds[s] \in {"public", "private", "corrupt"}}
        SlotOf(path) == CHOOSE s \in ScanSlots :
                            path \in {FilePath(s[1], s[2]), getMetadataPath(s[1], s[2])}
    IN  [path \in {FilePath(s[1], s[2]) : s \in content}
                      \cup {getMetadataPath(s[1], s[2]) : s \in sidecars} |->
            IF path = FilePath(SlotOf(path)[1], SlotOf(path)[2])
            THEN encrypt(Str(SlotOf(path)[1], "p1", 1, 1), SlotOf(path)[1], "salt1", "iv1")
            ELSE ScanSidecar(SlotOf(path), kinds[SlotOf(path)])]

InitScan ==
    \E kinds \in [ScanSlots -> SlotKinds] :
        /\ fsys = ScanStorage(kinds)
        /\ dirs = {getUserDataDir(s[1]) : s \in {t \in ScanSlots : kinds[t] # "absent"}}
        /\ publicFilesRegistry = << >>
        /\ minted = {ScanId(s) : s \in {t \in ScanSlots : kinds[t] = "public"}}
        /\ last = LogLine("start", NULL, NotAString, NotAString, NoId, 200)
        /\ fnArg = NotAString
        /\ fnRet = "none"
        /\ inflight = << >>

NextScan == Restart

SpecScan == InitScan /\ [][NextScan]_vars

\* C11: the startup scan skips a sidecar it cannot parse and goes on: after
\* it, every sidecar that parses with isPublic = true and a publicId is in the
\* registry, whatever the directory order.
C11_ScanSkipsCorruptSidecar ==
    last.op = "restart" =>
        \A slot \in ScanSlots :
            LET metadata == getFileMetadata(slot[1], slot[2])
            IN  (HasSidecar(fsys, slot[1], slot[2]) /\ IsShared(metadata)) =>
                    resolvePublic(metadata.publicId) =
                        [found |-> TRUE, userId |-> slot[1], filename |-> slot[2]]

\* the request was answered without any change to storage or the registry
NothingChanged(outcome) ==
    /\ outcome.dirs = dirs
    /\ outcome.fsys = fsys
    /\ outcome.registry = publicFilesRegistry
    /\ outcome.minted = minted

\* C12: rename(oldName, newName) with newName naming an existing content file
\* (newName = oldName included) fails with Conflict and changes no content
\* file, no sidecar and no registry entry.
C12_RenameOntoExistingConflicts ==
    \A headers \in Authenticated, oldFilename \in ValidNames, newName \in ValidNames :
        LET renamed == RenameOutcome(headers, oldFilename, newName)
        IN  HasContent(fsys, getUserId(headers), newName) =>
                /\ ErrorKind(renamed.status) = "Conflict"
                /\ NothingChanged(renamed)

\* an identity holds two files, one of them public: a rename of one onto the
\* other, and of each onto itself, is a rename onto an existing file
C12_Witness ==
    \E headers \in Authenticated :
        /\ HasContent(fsys, getUserId(headers), F1)
        /\ HasContent(fsys, getUserId(headers), F2)
        /\ IsShared(getFileMetadata(getUserId(headers), F1))
        /\ RenameOutcome(headers, F1, F2).status = 409
        /\ RenameOutcome(headers, F1, F1).status = 409

\* C13: delete of a valid filename without a content file in the caller's
\* namespace returns NotFound (not Internal); delete of an existing file that
\* has no sidecar succeeds.
C13_DeleteMissingIsNotFound ==
    \A headers \in Authenticated, filename \in ValidNames :
        LET userId == getUserId(headers)
            deleted == DeleteOutcome(headers, filename)
        IN  /\ ~HasContent(fsys, userId, filename) =>
                   ErrorKind(deleted.status) = "NotFound"
            /\ (HasContent(fsys, userId, filename) /\ ~HasSidecar(fsys, userId, filename)) =>
                   /\ deleted.status = 200
                   /\ ~HasContent(deleted.fsys, userId, filename)

(***************************************************************************)
(* encrypt and decrypt on their own: a text is encrypted for an identity,  *)
(* the blob may be changed in one of its four parts while it is stored,    *)
(* and a reader decrypts it.                                               *)
(***************************************************************************)
CryptTexts(userId) ==
    { Text(userId, << >>),
      Text(userId, <<"a">>),
      Text(userId, <<"a", "FFFD">>),
      Text(userId, <<HighSurrogate, LowSurrogate>>),
      Text(userId, <<HighSurrogate>>),
      Text(userId, <<LowSurrogate, "a">>) }

\* more outcomes of crypto.randomBytes than a save of the store draws
CryptSalts == RandomSalts \cup {"salt2"}
CryptIVs == RandomIVs \cup {"iv2"}

\* the parts of a blob: salt, iv, tag, ciphertext
BlobParts == 1..4

NoResult == [ok |-> FALSE, text |-> NULL]

InitCrypt ==
    /\ dirs = {}
    /\ fsys = << >>
    /\ publicFilesRegistry = << >>
    /\ minted = {}
    /\ last = LogLine("start", NULL, NotAString, NotAString, NoId, 200)
    /\ \E userId \in Users, reader \in Users, salt \in CryptSalts, iv \in CryptIVs :
       \E text \in CryptTexts(userId) :
           fnArg = [text |-> text, userId |-> userId, reader |-> reader,
                    salt |-> salt, iv |-> iv]
    /\ fnRet = [stage |-> "input", blob |-> << >>, changed |-> 0, result |-> NoResult]
    /\ inflight = << >>

CallEncrypt ==
    /\ fnRet.stage = "input"
    /\ fnRet' = [fnRet EXCEPT !.stage = "stored",
                              !.blob = encrypt(fnArg.text, fnArg.userId, fnArg.salt, fnArg.iv)]
    /\ UNCHANGED <<dirs, fsys, publicFilesRegistry, minted, last, fnArg, inflight>>

\* bits of one part of the stored blob flip; flipped ciphertext bits are
\* flipped bits of what it deciphers to
FlipPart(buffer, part) ==
    CASE part = 1 -> [buffer EXCEPT ![1] = "salt-flipped"]
      [] part = 2 -> [buffer EXCEPT ![2] = "iv-flipped"]
      [] part = 3 -> [buffer EXCEPT ![3] = <<"forged">>]
      [] part = 4 -> [buffer EXCEPT ![4].plain.units[1] = "flipped"]

ChangeBlob ==
    /\ fnRet.stage = "stored"
    /\ fnRet.changed = 0
    /\ \E part \in BlobParts :
           /\ part = 4 => FromBase64(fnRet.blob)[4].plain.units # << >>
           /\ fnRet' = [fnRet EXCEPT !.changed = part,
                                     !.blob = ToBase64(FlipPart(FromBase64(fnRet.blob), part))]
    /\ UNCHANGED <<dirs, fsys, publicFilesRegistry, minted, last, fnArg, inflight>>

CallDecrypt ==
    /\ fnRet.stage = "stored"
    /\ fnRet' = [fnRet EXCEPT !.stage = "decrypted",
                              !.result = decrypt(fnRet.blob, fnArg.reader)]
    /\ UNCHANGED <<dirs, fsys, publicFilesRegistry, minted, last, fnArg, inflight>>

NextCrypt ==
    \/ CallEncrypt
    \/ ChangeBlob
    \/ CallDecrypt

SpecCrypt == InitCrypt /\ [][NextCrypt]_vars

\* C15: decrypt(encrypt(p, id), id) returns p, for every plaintext within the
\* size limit, every identity and every salt and nonce drawn inside encrypt.
C15_DecryptInvertsEncrypt ==
    (fnRet.stage = "decrypted" /\ fnRet.changed = 0 /\ fnArg.reader = fnArg.userId) =>
        /\ fnRet.result.ok
        /\ fnRet.result.text = fnArg.text

\* C16: for idA # idB, decrypt(encrypt(p, idA), idB) returns no plaintext: it
\* fails with the authentication error, for every p.
C16_OtherIdentityCannotDecrypt ==
    (fnRet.stage = "decrypted" /\ fnRet.changed = 0 /\ fnArg.reader # fnArg.userId) =>
        ~fnRet.result.ok

\* bob decrypted a blob that was encrypted for alice
C16_Witness ==
    /\ fnRet.stage = "decrypted"
    /\ fnRet.changed = 0
    /\ fnArg.userId = "alice"
    /\ fnArg.reader = "bob"
    /\ fnArg.text.units = <<"a">>

\* C17: a blob that differs from what encrypt produced in its salt, nonce, tag
\* or ciphertext fails to decrypt under the owner's identity with the
\* authentication error; no plaintext is returned, original or corrupted.
C17_ChangedBlobFailsToDecrypt ==
    (fnRet.stage = "decrypted" /\ fnRet.changed \in BlobParts /\ fnArg.reader = fnArg.userId) =>
        /\ ~fnRet.result.ok
        /\ fnRet.result.text = NULL

\* the owner decrypted a blob whose ciphertext had been changed
C17_Witness ==
    /\ fnRet.stage = "decrypted"
    /\ fnRet.changed = 4
    /\ fnArg.reader = fnArg.userId
    /\ fnArg.text.units = <<"a">>

\* the same response to a read
SameRead(a, b) == a.status = b.status /\ (a.status = 200 => a.body = b.body)

\* the step is a write, a delete or a rename of filename by the caller
ChangesFile(headers, filename) ==
    \/ \E content \in ContentInputs(getUserId(headers)), salt \in RandomSalts, iv \in RandomIVs :
           /\ WriteOutcome(headers, filename, content, salt, iv).status = 200
           /\ fsys' = WriteOutcome(headers, filename, content, salt, iv).fsys
    \/ /\ DeleteOutcome(headers, filename).status = 200
       /\ fsys' = DeleteOutcome(headers, filename).fsys
    \/ \E newName \in RequestNames :
           /\ RenameOutcome(headers, filename, newName).status = 200
           /\ fsys' = RenameOutcome(headers, filename, newName).fsys

\* C14: after write(identity, f, p) succeeds, read(identity, f) returns exactly
\* p (also when f held other content before), and what read returns for f
\* stays the same until the identity's next write, delete or rename of f.
C14_ReadReturnsLastWrite ==
    /\ [](\A headers \in Authenticated, filename \in ValidNames :
          \A content \in ContentInputs(getUserId(headers)) \cup CryptTexts(getUserId(headers)) :
          \A salt \in RandomSalts, iv \in RandomIVs :
              LET written == WriteOutcome(headers, filename, content, salt, iv)
              IN  written.status = 200 =>
                      /\ ReadIn(written.fsys, headers, filename).status = 200
                      /\ ReadIn(written.fsys, headers, filename).body = content)
    /\ [][\A headers \in Authenticated, filename \in ValidNames :
              (/\ ReadIn(fsys, headers, filename).status = 200
               /\ ~SameRead(ReadIn(fsys, headers, filename), ReadIn(fsys', headers, filename)))
                  => ChangesFile(headers, filename)]_vars

\* the request was refused for want of an identity and nothing was changed
Refused(outcome) ==
    /\ ErrorKind(outcome.status) = "Unauthorized"
    /\ NothingChanged(outcome)

\* C18: every list, read, write, delete, rename, share and unshare request
\* without identity (both identity headers absent or empty) is rejected with
\* Unauthorized and changes no storage and no registry entry; the public read
\* is served without an identity.
C18_NoIdentityIsUnauthorized ==
    /\ \A headers \in Unauthenticated :
           /\ Refused(ListOutcome(headers))
           /\ \A filename \in RequestNames \cup InvalidPathNames :
                  /\ Refused(ReadOutcome(headers, filename))
                  /\ Refused(DeleteOutcome(headers, filename))
                  /\ Refused(UnshareOutcome(headers, filename))
                  /\ \A publicId \in FreshIds : Refused(ShareOutcome(headers, filename, publicId))
                  /\ \A newName \in RequestNames \cup InvalidBodyNames :
                         Refused(RenameOutcome(headers, filename, newName))
                  /\ \A userId \in Users, salt \in RandomSalts, iv \in RandomIVs :
                     \A content \in ContentInputs(userId) :
                         Refused(WriteOutcome(headers, filename, content, salt, iv))
    /\ \A publicId \in DOMAIN publicFilesRegistry : PublicReadOutcome(publicId).status = 200

\* the names of an identity's content files: the entries of its directory that
\* hold what a save stored
ContentNames(fs, userId) ==
    {path[2] : path \in {q \in DOMAIN fs : q[1] = getUserDataDir(userId) /\ IsBlob(fs[q])}}

\* C19: list(identity) returns exactly the names of the content files now
\* stored in the identity's namespace (a file written is listed, a file
\* deleted or renamed away is not, a renamed file is listed under its new
\* name), never a sidecar name, each with the isPublic and publicId of its
\* sidecar or false/null without one; with no directory it returns the empty
\* list, not an error.
C19_ListIsTheNamespace ==
    \A headers \in Authenticated :
        LET userId == getUserId(headers)
            listed == ListOutcome(headers)
            NamesIn(fs) == DOMAIN ListIn(fs, headers).body
        IN  /\ listed.status = 200
            /\ DOMAIN listed.body = ContentNames(fsys, userId)
            /\ \A name \in DOMAIN listed.body :
                   /\ \A filename \in ValidNames : name # MetaName(filename)
                   /\ listed.body[name] =
                          IF HasSidecar(fsys, userId, name)
                          THEN [isPublic |-> JSONparse(fsys[getMetadataPath(userId, name)]).isPublic,
                                publicId |-> JSONparse(fsys[getMetadataPath(userId, name)]).publicId]
                          ELSE [isPublic |-> FALSE, publicId |-> NoId]
            /\ getUserDataDir(userId) \notin dirs => listed.body = << >>
            /\ \A filename \in ValidNames :
                   /\ \A content \in ContentInputs(userId), salt \in RandomSalts, iv \in RandomIVs :
                          LET written == WriteOutcome(headers, filename, content, salt, iv)
                          IN  written.status = 200 =>
                                  NamesIn(written.fsys) = NamesIn(fsys) \cup {filename}
                   /\ LET deleted == DeleteOutcome(headers, filename)
                      IN  deleted.status = 200 =>
                              NamesIn(deleted.fsys) = NamesIn(fsys) \ {filename}
                   /\ \A newName \in ValidNames :
                          LET renamed == RenameOutcome(headers, filename, newName)
                          IN  renamed.status = 200 =>
                                  NamesIn(renamed.fsys) =
                                      (NamesIn(fsys) \ {filename}) \cup {newName}

\* alice holds a public file with its sidecar and a file without one, and bob
\* has no directory
C19_Witness ==
    /\ HasContent(fsys, "alice", F1)
    /\ HasSidecar(fsys, "alice", F1)
    /\ IsShared(getFileMetadata("alice", F1))
    /\ HasContent(fsys, "alice", F2)
    /\ ~HasSidecar(fsys, "alice", F2)
    /\ getUserDataDir("bob") \notin dirs
    /\ DOMAIN ListOutcome(<<"alice", "bob">>).body = {F1, F2}

(***************************************************************************)
(* getMetadataPath on its own, called as the handlers call it: on a        *)
(* filename that isValidFilename accepted.                                 *)
(***************************************************************************)
NoPath == << >>

InitSidecar ==
    /\ dirs = {}
    /\ fsys = << >>
    /\ publicFilesRegistry = << >>
    /\ minted = {}
    /\ last = LogLine("start", NULL, NotAString, NotAString, NoId, 200)
    /\ fnArg \in NameInputs
    /\ fnRet = [path |-> NoPath, accepted |-> FALSE]
    /\ inflight = << >>

\* the sidecar path of the filename, and isValidFilename of the sidecar's name
CallGetMetadataPath ==
    /\ fnRet.path = NoPath
    /\ isValidFilename(fnArg)
    /\ \E userId \in Users :
           fnRet' = [path |-> getMetadataPath(userId, fnArg),
                     accepted |-> isValidFilename(getMetadataPath(userId, fnArg)[2])]
    /\ UNCHANGED <<dirs, fsys, publicFilesRegistry, minted, last, fnArg, inflight>>

NextSidecar == CallGetMetadataPath

SpecSidecar == InitSidecar /\ [][NextSidecar]_vars

\* C20: for valid filenames f and g, the sidecar name "." + f + ".meta.json"
\* is rejected by isValidFilename, and sidecar(f) = sidecar(g) only if f = g.
C20_SidecarNameIsReserved ==
    fnRet.path # NoPath =>
        /\ ~fnRet.accepted
        /\ fnRet.path[2] = <<".">> \o fnArg \o <<".", "m", "e", "t", "a", ".", "j", "s", "o", "n">>
        /\ \A g \in NameInputs, userId \in Users :
               (isValidFilename(g) /\ getMetadataPath(userId, g)[2] = fnRet.path[2]) => g = fnArg

\* the sidecar path of a valid filename that itself ends in .meta.json
C20_Witness ==
    /\ fnRet.path # NoPath
    /\ fnArg = F2

\* more tokens that are not 32 characters of [a-f0-9]: too long, a letter
\* beyond f, a line break after 32 good characters
OtherMalformedIds ==
    { [k \in 1..33 |-> "0"],
      [k \in 1..32 |-> IF k = 1 THEN "g" ELSE "0"],
      [k \in 1..33 |-> IF k = 33 THEN "\n" ELSE "0"] }

\* C21: a public read rejects every token that is not exactly 32 characters of
\* [a-f0-9] before it consults the registry (also a registry that holds the
\* token), and every token share ever minted passes the format check.
C21_TokenFormatCheckedFirst ==
    /\ \A publicId \in MalformedIds \cup OtherMalformedIds :
           /\ ErrorKind(PublicReadOutcome(publicId).status) = "InvalidInput"
           /\ \A userId \in Users, filename \in ValidNames :
                  PublicReadIn(RegistrySet(publicFilesRegistry, publicId,
                                   [userId |-> userId, filename |-> filename]),
                               publicId).status = 400
    /\ \A publicId \in minted \cup generatePublicId : PublicIdFormat(publicId)

\* a minted token is registered and served
C21_Witness ==
    \E publicId \in minted :
        /\ publicId \in DOMAIN publicFilesRegistry
        /\ PublicReadOutcome(publicId).status = 200

(***************************************************************************)
(* getFileMetadata on its own, over the data directories of the startup    *)
(* scan: a sidecar may be missing, intact or damaged.                      *)
(***************************************************************************)
CallGetFileMetadata ==
    /\ Len(fnArg) = 1
    /\ \E slot \in ScanSlots :
           /\ fnArg' = slot
           /\ fnRet' = getFileMetadata(slot[1], slot[2])
    /\ UNCHANGED <<dirs, fsys, publicFilesRegistry, minted, last, inflight>>

NextMeta == CallGetFileMetadata

SpecMeta == InitScan /\ [][NextMeta]_vars

\* C22: getFileMetadata never raises: for a sidecar that is missing, unreadable
\* or not parseable it returns {isPublic: false, publicId: null}, so that its
\* caller always gets a record with an isPublic and a publicId field.
C22_GetFileMetadataNeverRaises ==
    Len(fnArg) = 2 =>
        LET metaPath == getMetadataPath(fnArg[1], fnArg[2])
        IN  /\ {"isPublic", "publicId"} \subseteq DOMAIN fnRet
            /\ (metaPath \notin DOMAIN fsys \/ ~JSONparses(fsys[metaPath])) =>
                   /\ fnRet.isPublic = FALSE
                   /\ fnRet.publicId = NoId
            /\ (metaPath \in DOMAIN fsys /\ JSONparses(fsys[metaPath])) =>
                   fnRet = JSONparse(fsys[metaPath])

\* getFileMetadata was called on a file whose sidecar is damaged
C22_Witness ==
    /\ Len(fnArg) = 2
    /\ getMetadataPath(fnArg[1], fnArg[2]) \in DOMAIN fsys
    /\ ~JSONparses(fsys[getMetadataPath(fnArg[1], fnArg[2])])

\* plaintexts around the limit, by length (UTF-16 units) and size (UTF-8
\* bytes): ASCII text of exactly 5 MiB, and 3,000,000 two-byte characters
SizeInputs(userId) ==
    { Str(userId, "full", MAX_FILE_SIZE, MAX_FILE_SIZE),
      Str(userId, "wide", 3000000, 6000000) }

\* C23: write stores a plaintext of at most 5 MiB and rejects every plaintext
\* of more than 5 MiB, storing nothing then; no stored file decodes to a
\* plaintext of more than 5 MiB.
C23_PlaintextSizeLimit ==
    /\ \A headers \in Authenticated, filename \in ValidNames :
       \A content \in ContentInputs(getUserId(headers)) \cup SizeInputs(getUserId(headers)) :
       \A salt \in RandomSalts, iv \in RandomIVs :
           LET written == WriteOutcome(headers, filename, content, salt, iv)
           IN  content.type = "string" =>
                   IF content.bytes <= 5 * 1024 * 1024
                   THEN /\ written.status = 200
                        /\ ReadIn(written.fsys, headers, filename).body = content
                   ELSE /\ written.status # 200
                        /\ NothingChanged(written)
    /\ \A userId \in Users : \A name \in ContentNames(fsys, userId) :
           LET decoded == decrypt(fsys[FilePath(userId, name)], userId)
           IN  decoded.ok => decoded.text.bytes <= 5 * 1024 * 1024

(***************************************************************************)
(* The handlers step by step.  Node runs one callback at a time and a      *)
(* handler gives way at each await, so a step is either one file-system    *)
(* call taking effect or the code that runs between two awaits when it     *)
(* touches the registry.  A world is the storage, the registry and the     *)
(* requests in flight; each step is a function from world to world.        *)
(***************************************************************************)
ReqIds == 1..3
NoBody == [none |-> TRUE]
NoFileInfo == [userId |-> NULL, filename |-> NotAString]

\* a request before its handler runs; publicId is the token in the URL of a
\* public read, and for share what generatePublicId returns if it is called
Request(op, userId, filename, newName, publicId) ==
    [op |-> op, userId |-> userId, filename |-> filename, newName |-> newName,
     publicId |-> publicId, pc |-> "waiting", metadata |-> DefaultMeta,
     fileInfo |-> NoFileInfo, files |-> {}, status |-> 0, body |-> NoBody,
     responses |-> 0]

NoRequest == [Request("none", NULL, NotAString, NotAString, NoId) EXCEPT !.pc = "absent"]

World(d, fs, registry, ids, reqs) ==
    [dirs |-> d, fsys |-> fs, registry |-> registry, minted |-> ids, reqs |-> reqs]

Goto(w, i, pc) == [w EXCEPT !.reqs[i].pc = pc]

\* res.status(status).json(body)
Respond(w, i, status, body) ==
    [w EXCEPT !.reqs[i] = [@ EXCEPT !.pc = "done", !.status = status, !.body = body,
                                    !.responses = @ + 1]]

Uncaught(w, i, status, message) == Goto(w, i, "rejected")

\* a handler's catch block answers for whatever its try block threw
Caught(w, i, status, message) == Respond(w, i, status, [error |-> message])

\* the body the client sends with a save in these runs
SavedText(userId) == Str(userId, "p2", 1, 1)

\* requireAuth, the validation at the head of a handler, and for a public
\* read the registry lookup: all run when the request arrives
StartStep(w, i) ==
    LET r == w.reqs[i]
    IN  IF r.op = "public"
        THEN IF ~PublicIdFormat(r.publicId)
             THEN Respond(w, i, 400, [error |-> "Invalid public ID format"])
             ELSE IF r.publicId \notin DOMAIN w.registry
             THEN Respond(w, i, 404, [error |-> "Public file not found"])
             ELSE Goto([w EXCEPT !.reqs[i].fileInfo = w.registry[r.publicId]], i, "readFile")
        ELSE IF r.userId = NULL
        THEN Respond(w, i, 401, [error |-> "Authentication required"])
        ELSE IF \/ r.op # "list" /\ ~isValidFilename(r.filename)
                \/ r.op = "rename" /\ ~isValidFilename(r.newName)
        THEN Respond(w, i, 400, [error |-> "Invalid filename"])
        ELSE IF r.op = "write" /\ SavedText(r.userId).type # "string"
        THEN Respond(w, i, 400, [error |-> "Invalid content"])
        ELSE IF r.op = "write" /\ SavedText(r.userId).length > MAX_FILE_SIZE
        THEN Respond(w, i, 413, [error |-> "File too large (max 5MB)"])
        ELSE Goto(w, i, CASE r.op \in {"list", "write"} -> "mkdir"
                          [] r.op = "read" -> "readFile"
                          [] r.op = "delete" -> "getMeta"
                          [] r.op = "rename" -> "accessNew"
                          [] r.op \in {"share", "unshare"} -> "access")

\* app.get('/api/files'); the stat and getFileMetadata calls of Promise.all
\* are taken as one step
ListStep(w, i, fails) ==
    LET r == w.reqs[i]
        userDataDir == getUserDataDir(r.userId)
        Empty == Respond(w, i, 200, [files |-> << >>])
    IN  CASE r.pc = "mkdir" ->
                 IF fails THEN Empty
                 ELSE Goto([w EXCEPT !.dirs = @ \cup {userDataDir}], i, "readdir")
          [] r.pc = "readdir" ->
                 IF fails THEN Empty
                 ELSE Goto([w EXCEPT !.reqs[i].files =
                               {name \in ReadDir(w.fsys, userDataDir) : ~IsMetadataFile(name)}],
                           i, "stat")
          [] r.pc = "stat" ->
                 IF fails \/ \E name \in r.files : ~HasContent(w.fsys, r.userId, name)
                 THEN Empty
                 ELSE Respond(w, i, 200,
                          [files |-> [name \in r.files |->
                              [isPublic |-> MetadataIn(w.fsys, r.userId, name).isPublic,
                               publicId |-> MetadataIn(w.fsys, r.userId, name).publicId]]])

\* the readFile and decrypt of a read and of a public read
ReadFileStep(w, i, fails, userId, filename, message) ==
    LET filePath == FilePath(userId, filename)
    IN  IF fails \/ filePath \notin DOMAIN w.fsys
        THEN Caught(w, i, 404, message)
        ELSE IF ~decrypt(w.fsys[filePath], userId).ok
        THEN Caught(w, i, 404, message)
        ELSE Respond(w, i, 200, [name |-> filename,
                                 content |-> decrypt(w.fsys[filePath], userId).text])

\* app.get('/api/files/:filename')
ReadStep(w, i, fails) ==
    ReadFileStep(w, i, fails, w.reqs[i].userId, w.reqs[i].filename, "File not found")

\* app.get('/api/public/:publicId')
PublicReadStep(w, i, fails) ==
    ReadFileStep(w, i, fails, w.reqs[i].fileInfo.userId, w.reqs[i].fileInfo.filename,
                 "Public file not found or no longer available")

\* app.post('/api/files/:filename')
WriteStep(w, i, fails) ==
    LET r == w.reqs[i]
    IN  CASE r.pc = "mkdir" ->
                 IF fails THEN Caught(w, i, 500, "Failed to save file")
                 ELSE Goto([w EXCEPT !.dirs = @ \cup {getUserDataDir(r.userId)}],
                           i, "writeFile")
          [] r.pc = "writeFile" ->
                 IF fails THEN Caught(w, i, 500, "Failed to save file")
                 ELSE Respond([w EXCEPT !.fsys =
                                  WriteFile(@, FilePath(r.userId, r.filename),
                                      encrypt(SavedText(r.userId), r.userId, "salt1", "iv1"))],
                              i, 200, [success |-> TRUE, filename |-> r.filename])

\* what await getFileMetadata leaves in the handler's local variable
ReadMetadata(w, i, fails, filename) ==
    [w EXCEPT !.reqs[i].metadata =
        IF fails THEN DefaultMeta ELSE MetadataIn(w.fsys, w.reqs[i].userId, filename)]

\* app.delete('/api/files/:filename')
DeleteStep(w, i, fails) ==
    LET r == w.reqs[i]
        filePath == FilePath(r.userId, r.filename)
        metaPath == getMetadataPath(r.userId, r.filename)
    IN  CASE r.pc = "getMeta" -> Goto(ReadMetadata(w, i, fails, r.filename), i, "unregister")
          [] r.pc = "unregister" ->
                 Goto([w EXCEPT !.registry = DeleteRegistryCleanup(@, r.metadata)],
                      i, "unlinkFile")
          [] r.pc = "unlinkFile" ->
                 IF fails \/ filePath \notin DOMAIN w.fsys
                 THEN Caught(w, i, 500, "Failed to delete file")
                 ELSE Goto([w EXCEPT !.fsys = Unlink(@, filePath)], i, "unlinkMeta")
          [] r.pc = "unlinkMeta" ->
                 Respond(IF fails THEN w ELSE [w EXCEPT !.fsys = DeleteSidecar(@, metaPath)],
                         i, 200, [success |-> TRUE])

\* app.put('/api/files/:filename/rename')
RenameStep(w, i, fails) ==
    LET r == w.reqs[i]
        oldPath == FilePath(r.userId, r.filename)
        newPath == FilePath(r.userId, r.newName)
        oldMetaPath == getMetadataPath(r.userId, r.filename)
        newMetaPath == getMetadataPath(r.userId, r.newName)
    IN  CASE r.pc = "accessNew" ->
                 IF ~fails /\ NewNameExists(w.fsys, newPath)
                 THEN Respond(w, i, 409, [error |-> "File already exists"])
                 ELSE Goto(w, i, "renameFile")
          [] r.pc = "renameFile" ->
                 IF fails \/ oldPath \notin DOMAIN w.fsys
                 THEN Caught(w, i, 500, "Failed to rename file")
                 ELSE Goto([w EXCEPT !.fsys = RenameFile(@, oldPath, newPath)], i, "getMeta")
          [] r.pc = "getMeta" -> Goto(ReadMetadata(w, i, fails, r.filename), i, "reregister")
          [] r.pc = "reregister" ->
                 Goto([w EXCEPT !.registry =
                          RenameRegistryUpdate(@, r.metadata, r.userId, r.newName)],
                      i, "renameMeta")
          [] r.pc = "renameMeta" ->
                 Respond(IF fails \/ oldMetaPath \notin DOMAIN w.fsys THEN w
                         ELSE [w EXCEPT !.fsys = RenameFile(@, oldMetaPath, newMetaPath)],
                         i, 200, [success |-> TRUE, newName |-> r.newName])

\* the fs.access(filePath) at the head of share and unshare
AccessStep(w, i, fails) ==
    IF fails \/ ~HasContent(w.fsys, w.reqs[i].userId, w.reqs[i].filename)
    THEN Respond(w, i, 404, [error |-> "File not found"])
    ELSE Goto(w, i, "getMeta")

\* app.post('/api/files/:filename/share')
ShareStep(w, i, fails) ==
    LET r == w.reqs[i]
        read == ReadMetadata(w, i, fails, r.filename)
        metadata == read.reqs[i].metadata
    IN  CASE r.pc = "access" -> AccessStep(w, i, fails)
          [] r.pc = "getMeta" ->
                 IF AlreadyPublic(metadata)
                 THEN Respond(read, i, 200, [success |-> TRUE, publicId |-> metadata.publicId])
                 ELSE Goto([read EXCEPT
                               !.minted = @ \cup {r.publicId},
                               !.reqs[i].metadata = [isPublic |-> TRUE,
                                                     publicId |-> r.publicId,
                                                     userId |-> r.userId]],
                           i, "saveMeta")
          [] r.pc = "saveMeta" ->
                 IF fails THEN Caught(w, i, 500, "Failed to share file")
                 ELSE Goto([w EXCEPT !.fsys =
                               saveFileMetadata(@, r.userId, r.filename, r.metadata)],
                           i, "register")
          [] r.pc = "register" ->
                 Respond([w EXCEPT !.registry =
                             RegistrySet(@, r.publicId,
                                 [userId |-> r.userId, filename |-> r.filename])],
                         i, 200, [success |-> TRUE, publicId |-> r.publicId])

\* app.post('/api/files/:filename/unshare')
UnshareStep(w, i, fails) ==
    LET r == w.reqs[i]
    IN  CASE r.pc = "access" -> AccessStep(w, i, fails)
          [] r.pc = "getMeta" -> Goto(ReadMetadata(w, i, fails, r.filename), i, "unregister")
          [] r.pc = "unregister" ->
                 Goto([w EXCEPT
                          !.registry = UnshareRegistryCleanup(@, r.metadata),
                          !.reqs[i].metadata = [r.metadata EXCEPT !.isPublic = FALSE,
                                                                  !.publicId = NoId]],
                      i, "saveMeta")
          [] r.pc = "saveMeta" ->
                 IF fails THEN Caught(w, i, 500, "Failed to unshare file")
                 ELSE Respond([w EXCEPT !.fsys =
                                  saveFileMetadata(@, r.userId, r.filename, r.metadata)],
                              i, 200, [success |-> TRUE])

\* the next step of request i; fails: the file-system call of the step raises
StepReq(w, i, fails) ==
    LET op == w.reqs[i].op
    IN  CASE op = "list" -> ListStep(w, i, fails)
          [] op = "read" -> ReadStep(w, i, fails)
          [] op = "write" -> WriteStep(w, i, fails)
          [] op = "delete" -> DeleteStep(w, i, fails)
          [] op = "rename" -> RenameStep(w, i, fails)
          [] op = "share" -> ShareStep(w, i, fails)
          [] op = "unshare" -> UnshareStep(w, i, fails)
          [] op = "public" -> PublicReadStep(w, i, fails)

Running(r) == r.pc \notin {"waiting", "absent", "done", "lost", "rejected"}
Settled(r) == r.pc \in {"absent", "done", "lost", "rejected"}

(***************************************************************************)
(* Runs of the step-by-step handlers: a data directory left by earlier     *)
(* requests, two requests that arrive at any time and interleave at their  *)
(* awaits, and a third that arrives once both have been answered.          *)
(***************************************************************************)
\* the file of each identity is absent, saved, or saved and shared
RaceKinds ==
    {kinds \in [ScanSlots -> {"absent", "plain", "public"}] :
        \A slot \in ScanSlots : slot[2] = F3 => kinds[slot] = "absent"}

Shared(kinds) == {slot \in ScanSlots : kinds[slot] = "public"}

\* the registry the process holds over ScanStorage(kinds)
RaceRegistry(kinds) ==
    [t \in {ScanId(slot) : slot \in Shared(kinds)} |->
        LET slot == CHOOSE x \in Shared(kinds) : ScanId(x) = t
        IN  [userId |-> slot[1], filename |-> slot[2]]]

\* what generatePublicId returns to request i
MintId(i) == HexId(4 + i)

RequestsOf(userId, i) ==
    { Request("list", userId, NotAString, NotAString, NoId),
      Request("read", userId, F1, NotAString, NoId),
      Request("write", userId, F1, NotAString, NoId),
      Request("delete", userId, F1, NotAString, NoId),
      Request("rename", userId, F1, F3, NoId),
      Request("share", userId, F1, NotAString, MintId(i)),
      Request("unshare", userId, F1, NotAString, NoId) }

PublicRequest == Request("public", NULL, NotAString, NotAString, ScanId(<<"alice", F1>>))

\* a save under the name a rename moves to
WriteNewName == Request("write", "alice", F3, NotAString, NoId)

RacePlans ==
    {<<r1, r2, r3>> :
        r1 \in RequestsOf("alice", 1),
        r2 \in RequestsOf("alice", 2) \cup RequestsOf("bob", 2)
                  \cup {PublicRequest, WriteNewName, NoRequest},
        r3 \in {Request("unshare", "alice", F1, NotAString, NoId), NoRequest}}

Scenario(kinds, faults, crashes) == [kinds |-> kinds, faults |-> faults, crashes |-> crashes]

\* the world a run starts from
StartWorld(kinds, plan) ==
    World({getUserDataDir(slot[1]) : slot \in {x \in ScanSlots : kinds[x] # "absent"}},
          ScanStorage(kinds), RaceRegistry(kinds),
          {ScanId(slot) : slot \in Shared(kinds)}, plan)

Held == World(dirs, fsys, publicFilesRegistry, minted, inflight)

Install(w) ==
    /\ dirs = w.dirs
    /\ fsys = w.fsys
    /\ publicFilesRegistry = w.registry
    /\ minted = w.minted
    /\ inflight = w.reqs

\* request i takes a step; fnRet notes a step taken while another request is
\* part-way through its handler
Advance(w, i) ==
    /\ dirs' = w.dirs
    /\ fsys' = w.fsys
    /\ publicFilesRegistry' = w.registry
    /\ minted' = w.minted
    /\ inflight' = w.reqs
    /\ fnRet' = IF \E j \in ReqIds \ {i} : Running(inflight[j]) THEN "interleaved" ELSE fnRet
    /\ UNCHANGED <<last, fnArg>>

InitRace ==
    \E kinds \in RaceKinds, plan \in RacePlans :
        /\ Install(StartWorld(kinds, plan))
        /\ last = LogLine("start", NULL, NotAString, NotAString, NoId, 200)
        /\ fnArg = Scenario(kinds, FALSE, FALSE)
        /\ fnRet = "sequential"

\* request i reaches the server; the third comes after the answers to the others
ArriveOf(i) ==
    /\ inflight[i].pc = "waiting"
    /\ i = 3 => Settled(inflight[1]) /\ Settled(inflight[2])
    /\ Advance(StartStep(Held, i), i)

Arrive == \E i \in ReqIds : ArriveOf(i)

\* the event loop runs the next step of request i
StepOf(i) ==
    /\ Running(inflight[i])
    /\ \E fails \in IF fnArg.faults THEN BOOLEAN ELSE {FALSE} :
           Advance(StepReq(Held, i, fails), i)

Step == \E i \in ReqIds : StepOf(i)

NextRace ==
    \/ Arrive
    \/ Step

SpecRace == InitRace /\ [][NextRace]_vars

AllSettled == \A i \in ReqIds : Settled(inflight[i])

\* request i run alone from where it stands to its response
RECURSIVE Finish(_, _)
Finish(w, i) ==
    IF w.reqs[i].pc = "waiting" THEN Finish(StartStep(w, i), i)
    ELSE IF Running(w.reqs[i]) THEN Finish(StepReq(w, i, FALSE), i)
    ELSE w

\* the requests of the run as they were sent
Sent ==
    [i \in ReqIds |->
        IF inflight[i].op = "none" THEN NoRequest
        ELSE Request(inflight[i].op, inflight[i].userId, inflight[i].filename,
                     inflight[i].newName, inflight[i].publicId)]

\* content files, sidecars, registry and responses of a world
Observed(w) ==
    [fsys |-> w.fsys, registry |-> w.registry,
     responses |-> [i \in ReqIds |-> [status |-> w.reqs[i].status, body |-> w.reqs[i].body,
                                      responses |-> w.reqs[i].responses]]]

\* C24: requests by different identities are independent: however the steps
\* of a request by A and of a request by B interleave, the content files,
\* sidecars, registry and responses at the end are those of running the two
\* requests one after the other, in either order.
C24_DifferentIdentitiesIndependent ==
    LET start == StartWorld(fnArg.kinds, Sent)
    IN  (/\ AllSettled
         /\ inflight[2].op \notin {"none", "public"}
         /\ inflight[1].userId # inflight[2].userId
         /\ inflight[3].op = "none")
        => /\ Observed(Held) = Observed(Finish(Finish(start, 1), 2))
           /\ Observed(Held) = Observed(Finish(Finish(start, 2), 1))

C24_Witness ==
    /\ AllSettled
    /\ fnRet = "interleaved"
    /\ inflight[3].op = "none"
    /\ inflight[1].op = "share" /\ inflight[1].status = 200
    /\ inflight[2].op = "delete" /\ inflight[2].userId = "bob" /\ inflight[2].status = 200
    /\ fnArg.kinds[<<"bob", F1>>] = "public"

(***************************************************************************)
(* Runs with a crash: one request by alice, the process may stop at any    *)
(* point and start again (the handlers in flight are lost, the registry is *)
(* rebuilt from storage), and a save of the same name may follow.          *)
(***************************************************************************)
CrashPlans ==
    {<<r1, NoRequest, r3>> :
        r1 \in RequestsOf("alice", 1),
        r3 \in {Request("write", "alice", F1, NotAString, NoId), NoRequest}}

InitCrash ==
    \E kinds \in RaceKinds, plan \in CrashPlans :
        /\ Install(StartWorld(kinds, plan))
        /\ last = LogLine("start", NULL, NotAString, NotAString, NoId, 200)
        /\ fnArg = Scenario(kinds, FALSE, TRUE)
        /\ fnRet = "sequential"

\* the process dies and a new one starts: once in a run
Crash ==
    /\ fnArg.crashes
    /\ last.op # "restart"
    /\ \E dirRank \in DirRankings, nameRank \in NameRankings :
           publicFilesRegistry' = loadPublicFilesRegistry(dirRank, nameRank)
    /\ inflight' = [i \in ReqIds |-> IF Running(inflight[i])
                                     THEN [inflight[i] EXCEPT !.pc = "lost"]
                                     ELSE inflight[i]]
    /\ last' = LogLine("restart", NULL, NotAString, NotAString, NoId, 200)
    /\ UNCHANGED <<dirs, fsys, minted, fnArg, fnRet>>

NextCrash ==
    \/ Arrive
    \/ Step
    \/ Crash

SpecCrash == InitCrash /\ [][NextCrash]_vars

\* C25: rename moves the content file and its sidecar as one atomic step: in
\* no reachable state, between the handler's file-system calls or after a crash
\* part-way and a restart, is the content under the new name while its sidecar
\* is still under the old name.
C25_RenameIsAtomic ==
    \A i \in ReqIds :
        inflight[i].op = "rename" =>
            ~(/\ HasContent(fsys, inflight[i].userId, inflight[i].newName)
              /\ ~HasContent(fsys, inflight[i].userId, inflight[i].filename)
              /\ HasSidecar(fsys, inflight[i].userId, inflight[i].filename)
              /\ ~HasSidecar(fsys, inflight[i].userId, inflight[i].newName))

\* request k is the only one of the run that touches the file it names
AloneOnItsFile(k) ==
    \A j \in ReqIds \ {k} :
        \/ inflight[j].op = "none"
        \/ inflight[j].op = "public"
              /\ inflight[j].publicId # ScanId(<<inflight[k].userId, inflight[k].filename>>)
        \/ inflight[j].op # "public" /\ inflight[j].userId # inflight[k].userId

\* C26: in an unshare of a public file with no other request touching that
\* file, the registry entry is removed before the sidecar is rewritten: in no
\* reachable state does the sidecar say isPublic = false while the registry
\* still maps the file's former token.
C26_UnshareRegistryFirst ==
    \A k \in ReqIds :
        LET r == inflight[k]
            slot == <<r.userId, r.filename>>
        IN  (/\ r.op = "unshare"
             /\ fnArg.kinds[slot] = "public"
             /\ AloneOnItsFile(k))
            => ~(/\ HasSidecar(fsys, r.userId, r.filename)
                 /\ ~MetadataIn(fsys, r.userId, r.filename).isPublic
                 /\ ScanId(slot) \in DOMAIN publicFilesRegistry)

C26_Witness ==
    /\ inflight[1].op = "unshare"
    /\ inflight[1].pc = "saveMeta"
    /\ AloneOnItsFile(1)
    /\ fnArg.kinds[<<"alice", F1>>] = "public"
    /\ MetadataIn(fsys, "alice", F1).isPublic
    /\ ScanId(<<"alice", F1>>) \notin DOMAIN publicFilesRegistry
    /\ Running(inflight[2])

(***************************************************************************)
(* Runs in which file-system calls may fail: each call of a handler either *)
(* takes effect or raises.  The event loop resumes every handler whose     *)
(* call has settled, and Express dispatches every request it received:     *)
(* weak fairness on each request's arrival and steps.                      *)
(***************************************************************************)
FaultPlans ==
    {<<r1, r2, NoRequest>> :
        r1 \in RequestsOf("alice", 1) \cup {PublicRequest},
        r2 \in {Request("delete", "alice", F1, NotAString, NoId), NoRequest}}

InitFault ==
    \E kinds \in RaceKinds, plan \in FaultPlans :
        /\ Install(StartWorld(kinds, plan))
        /\ last = LogLine("start", NULL, NotAString, NotAString, NoId, 200)
        /\ fnArg = Scenario(kinds, TRUE, FALSE)
        /\ fnRet = "sequential"

SpecFault ==
    /\ InitFault
    /\ [][NextRace]_vars
    /\ \A i \in ReqIds : WF_vars(ArriveOf(i)) /\ WF_vars(StepOf(i))

\* C27: every request (list, read, write, delete, rename, share, unshare,
\* public read) eventually produces exactly one response, a success or an
\* error, whichever of its file-system calls fail.
C27_EveryRequestAnsweredOnce ==
    /\ [](\A i \in ReqIds : inflight[i].responses <= 1)
    /\ \A i \in ReqIds :
           (inflight[i].op # "none") ~>
               (inflight[i].pc = "done" /\ inflight[i].responses = 1
                                        /\ inflight[i].status # 0)

C27_Witness ==
    /\ inflight[1].op = "share"
    /\ inflight[1].pc = "done"
    /\ inflight[1].status = 500
    /\ inflight[1].responses = 1
    /\ inflight[2].op = "delete"
    /\ inflight[2].pc = "done"

\* the tokens the registry resolves to a file
TokensOf(registry, userId, filename) ==
    {t \in DOMAIN registry : registry[t] = [userId |-> userId, filename |-> filename]}

\* C28: once unshare(identity, f) has returned success and no share of f is
\* started afterwards, no token in the registry resolves to (identity, f),
\* whatever happened before, two share requests for f whose steps interleaved
\* included.  The unshare is the request that arrives after the answers to the
\* other two.
C28_UnshareLeavesNoToken ==
    (/\ inflight[3].op = "unshare"
     /\ inflight[3].pc = "done"
     /\ inflight[3].status = 200)
    => TokensOf(publicFilesRegistry, inflight[3].userId, inflight[3].filename) = {}

\* a token or a public sidecar points at a file that has no content
DanglingLink(fs, registry, userId, filename) ==
    /\ ~HasContent(fs, userId, filename)
    /\ \/ TokensOf(registry, userId, filename) # {}
       \/ HasSidecar(fs, userId, filename) /\ MetadataIn(fs, userId, filename).isPublic

\* C29: when a delete of file f interleaves with a share of the same f, the
\* state after both have responded never has a registry entry resolving to f
\* or a sidecar for f with isPublic = true while f's content file no longer
\* exists.
C29_DeleteShareLeaveNoDanglingLink ==
    \A i, j \in {1, 2} :
        (/\ inflight[i].op = "delete" /\ inflight[j].op = "share"
         /\ inflight[i].userId = inflight[j].userId
         /\ inflight[i].filename = inflight[j].filename
         /\ inflight[i].pc = "done" /\ inflight[j].pc = "done"
         /\ inflight[3].pc \in {"waiting", "absent"})
        => ~DanglingLink(fsys, publicFilesRegistry, inflight[i].userId, inflight[i].filename)

\* the process stopped inside request i and has started again
CrashedInside(i) == inflight[i].pc = "lost" /\ last.op = "restart"

\* C30: if the process crashes at any point inside a delete of a public file
\* and the registry is then rebuilt at restart, no token in the rebuilt
\* registry resolves to a file whose content no longer exists, and a later
\* write of a new file under the same name does not become publicly readable
\* through the old token.
C30_CrashInDeleteLeavesNoLink ==
    LET r == inflight[1]
        oldToken == ScanId(<<r.userId, r.filename>>)
    IN  (/\ r.op = "delete"
         /\ fnArg.kinds[<<r.userId, r.filename>>] = "public"
         /\ CrashedInside(1))
        => /\ inflight[3].pc \in {"waiting", "absent"} =>
                  \A t \in DOMAIN publicFilesRegistry :
                      HasContent(fsys, publicFilesRegistry[t].userId,
                                 publicFilesRegistry[t].filename)
           /\ (inflight[3].op = "write" /\ inflight[3].pc = "done"
                                        /\ inflight[3].status = 200)
                  => PublicReadIn(publicFilesRegistry, oldToken).status # 200

\* the plaintext stored under a name, when it decrypts
StoredText(fs, userId, filename) == decrypt(fs[FilePath(userId, filename)], userId).text

\* C31: rename never overwrites an existing content file: when the existence
\* check and the move of a rename interleave with a write that creates
\* newName, the file the write stored under newName is not replaced by the
\* renamed one, and if the write came first the rename fails with Conflict.
C31_RenameNeverOverwrites ==
    \A i, j \in {1, 2} :
        (/\ inflight[i].op = "rename" /\ inflight[j].op = "write"
         /\ inflight[i].userId = inflight[j].userId
         /\ inflight[i].newName = inflight[j].filename
         /\ inflight[i].pc = "done" /\ inflight[j].pc = "done"
         /\ inflight[j].status = 200
         /\ inflight[3].pc \in {"waiting", "absent"})
        => /\ HasContent(fsys, inflight[j].userId, inflight[j].filename)
           /\ StoredText(fsys, inflight[j].userId, inflight[j].filename)
                  = SavedText(inflight[j].userId)

\* C32: a public read with the token of a shared file keeps working across a
\* rename of that file: however the steps of the public read and of the
\* rename interleave, the public read returns the file's content, never
\* NotFound.
C32_PublicReadSurvivesRename ==
    (/\ inflight[1].op = "rename"
     /\ inflight[2].op = "public"
     /\ inflight[2].publicId = ScanId(<<inflight[1].userId, inflight[1].filename>>)
     /\ fnArg.kinds[<<inflight[1].userId, inflight[1].filename>>] = "public"
     /\ inflight[2].pc = "done")
    => /\ inflight[2].status = 200
       /\ inflight[2].body.content = Str(inflight[1].userId, "p1", 1, 1)

\* C33: no filename accepted by isValidFilename ends with the sidecar suffix
\* ".meta.json", so the startup scan takes a directory entry for a sidecar
\* only when it is one, and from the sidecar name of a valid filename f it
\* recovers exactly f.
C33_ValidNameNeverEndsWithMetaSuffix ==
    fnRet = "true" =>
        /\ ~EndsWith(fnArg, MetaSuffix)
        /\ EndsWith(MetaName(fnArg), MetaSuffix)
        /\ SliceMetaName(MetaName(fnArg)) = fnArg

\* C34: a namespace directory is created only by a write: a list, read,
\* delete, rename, share or unshare by an identity whose directory does not
\* exist leaves storage without a directory for that identity.
C34_OnlyWriteCreatesDirectory ==
    \A headers \in Authenticated :
        LET userDataDir == getUserDataDir(getUserId(headers))
        IN  userDataDir \notin dirs =>
                /\ userDataDir \notin ListOutcome(headers).dirs
                /\ \A filename \in RequestNames :
                       /\ userDataDir \notin ReadOutcome(headers, filename).dirs
                       /\ userDataDir \notin DeleteOutcome(headers, filename).dirs
                       /\ userDataDir \notin UnshareOutcome(headers, filename).dirs
                       /\ \A newName \in RequestNames :
                              userDataDir \notin RenameOutcome(headers, filename, newName).dirs
                       /\ \A publicId \in FreshIds :
                              userDataDir \notin ShareOutcome(headers, filename, publicId).dirs

\* the sidecars in storage whose content file is absent from their namespace
OrphanSidecars(fs) ==
    {p \in DOMAIN fs : IsMetadataFile(p[2]) /\ <<p[1], SliceMetaName(p[2])>> \notin DOMAIN fs}

\* C35: when requests run one at a time without crashes, every sidecar in a
\* namespace belongs to an existing content file of the same namespace: no
\* state between requests has a sidecar for a filename whose content file is
\* absent.
C35_SidecarsHaveContent == OrphanSidecars(fsys) = {}

\* a shared file has just been deleted, and storage still holds a sidecar
C35_Witness ==
    /\ last.op = "delete"
    /\ last.status = 200
    /\ last.publicId # NoId
    /\ \E p \in DOMAIN fsys : IsMetadataFile(p[2])

\* C36: write(identity, f, p) changes only the content of f: every sidecar
\* and every registry entry stays as it was, so a shared file stays shared
\* under the same token, and a public read with that token returns p, the
\* content of the most recent completed write.
C36_WriteChangesOnlyContent ==
    \A headers \in Authenticated, filename \in ValidNames :
    \A content \in ContentInputs(getUserId(headers)) \cup CryptTexts(getUserId(headers)) :
    \A salt \in RandomSalts, iv \in RandomIVs :
        LET userId == getUserId(headers)
            written == WriteOutcome(headers, filename, content, salt, iv)
        IN  written.status = 200 =>
                /\ written.registry = publicFilesRegistry
                /\ DOMAIN written.fsys = DOMAIN fsys \cup {FilePath(userId, filename)}
                /\ \A p \in DOMAIN fsys \ {FilePath(userId, filename)} :
                       written.fsys[p] = fsys[p]
                /\ \A t \in TokensOf(publicFilesRegistry, userId, filename) :
                       /\ PublicReadAt(written.fsys, written.registry, t).status = 200
                       /\ PublicReadAt(written.fsys, written.registry, t).body.content = content

RATE_LIMIT_WINDOW == 60 * 1000
RATE_LIMIT_MAX_REQUESTS == 100

\* the clock advances by TickMs, MaxTicks times
TickMs == 60000
MaxTicks == 2
\* requests a client may still send once it is over the limit
MaxOver == 2
\* requests of a client other than the busy one
MaxOther == 2
\* public reads of a client in a window in which it also sends other requests
MaxMixed == 2

Space == " "

RECURSIVE TrimStart(_)
TrimStart(s) == IF s # << >> /\ Head(s) = Space THEN TrimStart(Tail(s)) ELSE s

RECURSIVE TrimEnd(_)
TrimEnd(s) ==
    IF s # << >> /\ s[Len(s)] = Space THEN TrimEnd(SubSeq(s, 1, Len(s) - 1)) ELSE s

\* String.prototype.trim
Trim(s) == TrimEnd(TrimStart(s))

Unknown == <<"u", "n", "k", "n", "o", "w", "n">>

\* What a request carries about its sender: the entries of x-forwarded-for
\* (the header split at its commas; no entry when the header is absent),
\* x-real-ip and the socket's remote address (<< >> when absent).
Origin(forwarded, realIp, remoteAddress) ==
    [forwarded |-> forwarded, realIp |-> realIp, remoteAddress |-> remoteAddress]

Origins ==
    { Origin(<< <<" ", "1">>, <<"9">> >>, <<"2">>, <<"7">>),
      Origin(<< >>, <<"1">>, <<"7">>),
      Origin(<< << >> >>, << >>, <<"1">>),
      Origin(<< >>, << >>, << >>) }

\* const clientIp = ... in rateLimit; an empty string is falsy
clientIp(origin) ==
    IF origin.forwarded # << >> /\ Trim(origin.forwarded[1]) # << >>
    THEN Trim(origin.forwarded[1])
    ELSE IF origin.realIp # << >> THEN origin.realIp
    ELSE IF origin.remoteAddress # << >> THEN origin.remoteAddress
    ELSE Unknown

Clients == {clientIp(origin) : origin \in Origins}
BusyClient == <<"1">>

\* a limiter that lets one request more through
OverLimitLate(count) == count > RATE_LIMIT_MAX_REQUESTS + 1

\* if (clientData.count > RATE_LIMIT_MAX_REQUESTS)
OverLimit(count) == count > RATE_LIMIT_MAX_REQUESTS

\* function rateLimit(req, res, next) at time t; cleanup is the outcome of
\* Math.random() < 0.01.  passed: next() was called, no 429 was sent.
rateLimit(map, ip, t, cleanup) ==
    LET clientData == IF ip \in DOMAIN map THEN map[ip]
                      ELSE [count |-> 0, resetTime |-> t + RATE_LIMIT_WINDOW]
        counted == IF t > clientData.resetTime
                   THEN [count |-> 1, resetTime |-> t + RATE_LIMIT_WINDOW]
                   ELSE [clientData EXCEPT !.count = @ + 1]
        stored == [c \in DOMAIN map \cup {ip} |-> IF c = ip THEN counted ELSE map[c]]
        kept == {c \in DOMAIN stored : ~(cleanup /\ t > stored[c].resetTime)}
    IN  [map |-> [c \in kept |-> stored[c]], passed |-> ~OverLimit(counted.count)]

FilesRoute == "/api/files"
PublicRoute == "/api/public/:publicId"
Routes == {FilesRoute, PublicRoute}

\* The middleware a request to an /api route runs through before its
\* handler: app.use('/api', rateLimit), then the limiter registered on the
\* route itself (app.get('/api/public/:publicId', rateLimit, ...)).
Middleware(map, ip, t, route, cleanup1, cleanup2) ==
    LET first == rateLimit(map, ip, t, cleanup1)
    IN  IF first.passed /\ route = PublicRoute
        THEN rateLimit(first.map, ip, t, cleanup2)
        ELSE first

rateLimitMap == fnArg.rateLimitMap
now == fnArg.now
traffic == fnRet

NoTraffic == [files |-> 0, public |-> 0, reached |-> 0, answer |-> "none", limited |-> FALSE]

\* the request opens a new window of its client
OpensWindow(map, ip, t) == ip \notin DOMAIN map \/ t > map[ip].resetTime

Quota(ip) == IF ip = BusyClient THEN RATE_LIMIT_MAX_REQUESTS + MaxOver ELSE MaxOther

InitLimit ==
    /\ dirs = {}
    /\ fsys = << >>
    /\ publicFilesRegistry = << >>
    /\ minted = {}
    /\ last = LogLine("start", NULL, NotAString, NotAString, NoId, 200)
    /\ fnArg = [rateLimitMap |-> << >>, now |-> 0]
    /\ fnRet = [c \in Clients |-> NoTraffic]
    /\ inflight = << >>

\* one request to an /api route, up to the call of its handler
LimitedRequest ==
    \E origin \in Origins, route \in Routes, cleanup1 \in BOOLEAN, cleanup2 \in BOOLEAN :
        LET ip == clientIp(origin)
            limited == Middleware(rateLimitMap, ip, now, route, cleanup1, cleanup2)
            window == IF OpensWindow(rateLimitMap, ip, now)
                      THEN [NoTraffic EXCEPT !.limited = traffic[ip].limited]
                      ELSE traffic[ip]
        IN  /\ ip \in DOMAIN rateLimitMap => rateLimitMap[ip].count < Quota(ip)
            /\ route = PublicRoute /\ window.files > 0 => window.public < MaxMixed
            /\ route = FilesRoute => window.public <= MaxMixed
            /\ fnArg' = [fnArg EXCEPT !.rateLimitMap = limited.map]
            /\ fnRet' = [traffic EXCEPT ![ip] =
                   [files |-> window.files + (IF route = FilesRoute THEN 1 ELSE 0),
                    public |-> window.public + (IF route = PublicRoute THEN 1 ELSE 0),
                    reached |-> window.reached + (IF limited.passed THEN 1 ELSE 0),
                    answer |-> IF limited.passed THEN "handler" ELSE "429",
                    limited |-> window.limited \/ ~limited.passed]]
            /\ UNCHANGED <<dirs, fsys, publicFilesRegistry, minted, last, inflight>>

\* Date.now() moves on
Tick ==
    /\ now < MaxTicks * TickMs
    /\ fnArg' = [fnArg EXCEPT !.now = @ + TickMs]
    /\ UNCHANGED <<dirs, fsys, publicFilesRegistry, minted, last, fnRet, inflight>>

NextLimit == LimitedRequest \/ Tick

SpecLimit == InitLimit /\ [][NextLimit]_vars

\* client c sent a request in this step
Requested(c) == traffic'[c] # traffic[c]

\* C38: the rate limiter lets at most 100 requests of one client address
\* reach an /api handler within one window of the limiter; once the client's
\* counter for the current window exceeds 100, every further request in
\* that window is answered 429 and reaches no handler; and the counter
\* restarts at 1 (with a new reset time one window ahead) in the limiter's
\* run for the first request after the window's reset time.
C38_AtMostMaxRequestsPerWindow ==
    /\ [](\A c \in Clients : traffic[c].reached <= RATE_LIMIT_MAX_REQUESTS)
    /\ [][\A c \in Clients :
             /\ c \in DOMAIN rateLimitMap
             /\ rateLimitMap[c].count > RATE_LIMIT_MAX_REQUESTS
             /\ ~(now > rateLimitMap[c].resetTime)
             /\ Requested(c)
             => /\ traffic'[c].answer = "429"
                /\ traffic'[c].reached = traffic[c].reached]_vars
    /\ [][\A c \in Clients :
             /\ c \in DOMAIN rateLimitMap
             /\ now > rateLimitMap[c].resetTime
             /\ Requested(c)
             => /\ \A cleanup \in BOOLEAN :
                       rateLimit(rateLimitMap, c, now, cleanup).map[c] =
                           [count |-> 1, resetTime |-> now + RATE_LIMIT_WINDOW]
                /\ traffic'[c].answer = "handler"
                /\ traffic'[c].reached = 1
                /\ traffic'[c].files = 1 => rateLimitMap'[c].count = 1]_vars

\* a client that was answered 429 after 100 of its requests reached a
\* handler is served again in its next window
C38_Witness ==
    \E c \in Clients :
        /\ traffic[c].limited
        /\ traffic[c].answer = "handler"
        /\ traffic[c].files = 1
        /\ traffic[c].reached = 1
        /\ rateLimitMap[c].count = 1
        /\ now > RATE_LIMIT_WINDOW

\* C39: each request to an /api route raises its client's counter by exactly
\* one, on every route including the public read, so a client with no other
\* traffic in the window completes 100 public reads before the first 429.
C39_EachRequestCountsOnce ==
    /\ [][\A c \in Clients :
             Requested(c) /\ ~OpensWindow(rateLimitMap, c, now)
             => rateLimitMap'[c].count = rateLimitMap[c].count + 1]_vars
    /\ [](\A c \in Clients :
             traffic[c].files = 0 /\ traffic[c].answer = "429"
             => traffic[c].public > RATE_LIMIT_MAX_REQUESTS)

(***************************************************************************)
(* The editor's autosave.  In SpecEditor the variable fnArg holds the      *)
(* editor: its open tabs, the ref autosaveTimers, the browser's timers     *)
(* that were set and neither cleared nor finished, and the caller's files  *)
(* on the server.                                                          *)
(***************************************************************************)
MaxTabs == 2
\* setTimeout calls in one behaviour
MaxTimers == 3

TabIds == 1..MaxTabs
TimerIds == 1..MaxTimers
EditorTexts == {"c1", "c2"}
EditorNames == {F1, F2, F3}

tabs == fnArg.tabs
autosaveTimers == fnArg.autosaveTimers
timers == fnArg.timers
stored == fnArg.stored

\* the timers of tab id that have not fired yet
Pending(id) == {h \in DOMAIN timers : timers[h].id = id /\ timers[h].state = "pending"}

Editor(t, a, tm, st, n) ==
    [tabs |-> t, autosaveTimers |-> a, timers |-> tm, stored |-> st, timeouts |-> n]

\* clearTimeout(existingTimer): a timer that has fired is not affected
ClearTimeout(tm, h) ==
    IF h \in DOMAIN tm /\ tm[h].state = "pending"
    THEN [k \in DOMAIN tm \ {h} |-> tm[k]]
    ELSE tm

\* the files of one user were opened from the server, each in a tab
InitEditor ==
    /\ dirs = {}
    /\ fsys = << >>
    /\ publicFilesRegistry = << >>
    /\ minted = {}
    /\ last = LogLine("start", NULL, NotAString, NotAString, NoId, 200)
    /\ \E isNew \in BOOLEAN :
           fnArg = Editor(
               [id \in TabIds |->
                   [name |-> IF id = 1 THEN F1 ELSE F2, content |-> "c0",
                    isDirty |-> isNew /\ id # 1, isNew |-> isNew /\ id # 1]],
               << >>, << >>,
               [n \in (IF isNew THEN {F1} ELSE {F1, F2}) |-> "c0"], 0)
    /\ fnRet = "none"
    /\ inflight = << >>

EditorStep(editor) ==
    /\ fnArg' = editor
    /\ UNCHANGED <<dirs, fsys, publicFilesRegistry, minted, last, fnRet, inflight>>

\* updateTabContent(id, content): the user types in tab id; setTimeout
\* returns a handle it has not returned before
updateTabContent ==
    \E id \in DOMAIN tabs, content \in EditorTexts :
        LET tab == tabs[id]
            edited == [tabs EXCEPT ![id].content = content, ![id].isDirty = TRUE]
            timer == fnArg.timeouts + 1
            cleared == IF id \in DOMAIN autosaveTimers
                       THEN ClearTimeout(timers, autosaveTimers[id])
                       ELSE timers
        IN  IF tab.isNew
            THEN EditorStep(Editor(edited, autosaveTimers, timers, stored, fnArg.timeouts))
            ELSE /\ timer \in TimerIds
                 /\ EditorStep(Editor(edited,
                        [i \in DOMAIN autosaveTimers \cup {id} |->
                            IF i = id THEN timer ELSE autosaveTimers[i]],
                        [k \in DOMAIN cleared \cup {timer} |->
                            IF k = timer
                            THEN [id |-> id, name |-> tab.name, content |-> content,
                                  state |-> "pending"]
                            ELSE cleared[k]],
                        stored, timer))

\* a timer fires after AUTOSAVE_DELAY: api.saveFile(tab.name, content) with
\* the name and content of the call that set it; the server writes the file
AutosaveFires ==
    \E h \in DOMAIN timers :
        /\ timers[h].state = "pending"
        /\ EditorStep(Editor(tabs, autosaveTimers,
               [timers EXCEPT ![h].state = "saving"],
               [n \in DOMAIN stored \cup {timers[h].name} |->
                   IF n = timers[h].name THEN timers[h].content ELSE stored[n]],
               fnArg.timeouts))

\* the save's answer arrives: the tab is clean and its entry of
\* autosaveTimers is deleted
AutosaveSaved ==
    \E h \in DOMAIN timers :
        /\ timers[h].state = "saving"
        /\ EditorStep(Editor(
               [id \in DOMAIN tabs |->
                   IF id = timers[h].id THEN [tabs[id] EXCEPT !.isDirty = FALSE] ELSE tabs[id]],
               [i \in DOMAIN autosaveTimers \ {timers[h].id} |-> autosaveTimers[i]],
               [k \in DOMAIN timers \ {h} |-> timers[k]],
               stored, fnArg.timeouts))

\* renameCurrentFile: the active tab id gets the name newName; the server
\* answers 409 when newName exists and 500 when the old file is missing
renameCurrentFile ==
    \E id \in DOMAIN tabs, newName \in EditorNames :
        LET tab == tabs[id]
            renamed == [tabs EXCEPT ![id].name = newName]
        IN  /\ newName # tab.name
            /\ IF tab.isNew
               THEN EditorStep(Editor(renamed, autosaveTimers, timers, stored, fnArg.timeouts))
               ELSE IF newName \in DOMAIN stored \/ tab.name \notin DOMAIN stored
               THEN EditorStep(fnArg)
               ELSE EditorStep(Editor(renamed, autosaveTimers, timers,
                        RenameFile(stored, tab.name, newName), fnArg.timeouts))

\* closeTab(id)
CloseTab(t, id) == [i \in DOMAIN t \ {id} |-> t[i]]

closeTab == \E id \in DOMAIN tabs : EditorStep([fnArg EXCEPT !.tabs = CloseTab(tabs, id)])

\* deleteFileFromServer(filename) from the file list; a tab that shows the
\* file is closed
deleteFileFromServer ==
    \E filename \in DOMAIN stored :
        LET open == {id \in DOMAIN tabs : tabs[id].name = filename}
            openTab == CHOOSE id \in open : \A other \in open : id <= other
        IN  EditorStep(Editor(
                IF open = {} THEN tabs ELSE CloseTab(tabs, openTab),
                autosaveTimers, timers, Unlink(stored, filename), fnArg.timeouts))

NextEditor ==
    \/ updateTabContent
    \/ AutosaveFires
    \/ AutosaveSaved
    \/ renameCurrentFile
    \/ closeTab
    \/ deleteFileFromServer

SpecEditor == InitEditor /\ [][NextEditor]_vars

\* timer h fires in this step
Fires(h) == timers[h].state = "pending" /\ h \in DOMAIN timers' /\ timers'[h].state = "saving"

\* C40: at most one autosave timer is pending per tab and it carries the
\* tab's latest content; and once the tab's file has been renamed or deleted
\* on the server, or the tab has been closed, no pending autosave fires a
\* save to the file's old name.
C40_AutosaveFollowsTab ==
    /\ [](\A id \in DOMAIN tabs :
             /\ Cardinality(Pending(id)) <= 1
             /\ \A h \in Pending(id) : timers[h].content = tabs[id].content)
    /\ [][\A h \in DOMAIN timers :
             Fires(h) => /\ timers[h].id \in DOMAIN tabs
                         /\ tabs[timers[h].id].name = timers[h].name]_vars

====
